---- MODULE Spec2Model ----
(***************************************************************************)
(* Phase-comparison analytics of the SEO dashboard (src/app.py).           *)
(*                                                                         *)
(* The dashboard is a script that is re-executed top to bottom on every    *)
(* widget change.  The state is the session state behind the password gate, *)
(* the two fetched fact tables, the widgets, and what the last execution of *)
(* the script computed in each tab.  The uploader (src/upload_data.py) is a *)
(* second script with a session of its own behind the same gate.            *)
(*                                                                         *)
(* Cells of a DataFrame are float64 values.  They are modelled as exact    *)
(* extended rationals [n, d]: d > 0 is the reduced fraction n/d, and d = 0 *)
(* is one of the IEEE specials +inf (n = 1), -inf (n = -1), NaN (n = 0).   *)
(* Rounding is modelled where the outcome depends on it: the per-group     *)
(* mean of Position is also computed in binary64 (SpecFloat).              *)
(***************************************************************************)
EXTENDS Integers, Sequences, FiniteSets, TLC

VARIABLES
    session_state,     \* st.session_state of the dashboard session (app.py:15)
    password_input,    \* the text last entered in the dashboard's password box
    page,              \* what the last run of the dashboard rendered
    upload_session_state,  \* st.session_state of the uploader session (upload_data.py:12)
    upload_password_input, \* the text last entered in the uploader's password box
    upload_page,       \* what the last run of the uploader rendered
    empty_apply,       \* what DataFrame.apply(axis=1) returns for an empty frame
    max_rows,          \* slider 'Max Number of Top/Bottom Queries'   (app.py:267)
    domain_gsc,        \* GSC rows of the selected domain          (app.py:146)
    df_queries_all,    \* Top_Queries rows of the selected domain  (app.py:147)
    phase_a,           \* select box 'phase_a_select'              (app.py:216)
    phase_b,           \* select box 'phase_b_select'              (app.py:219)
    tier_phase_a,      \* select box 'tier_a'                      (app.py:375)
    tier_phase_b,      \* select box 'tier_b'                      (app.py:378)
    st_phase_a,        \* select box 'st_a'                        (app.py:633)
    st_phase_b,        \* select box 'st_b'                        (app.py:636)
    tab_comparison,    \* what the last run computed in tab 2      (app.py:209)
    tab_tiers,         \* what the last run computed in tab 3      (app.py:357)
    tab_strategy,      \* what the last run computed in tab 4      (app.py:626)
    metrics_call,      \* result of the last direct call of calculate_phase_metrics
    position_mean,     \* float64 accumulators of the Position mean of a group (app.py:282)
    database,          \* the Supabase tables the uploader writes      (upload_data.py:54)
    batch,             \* the uploader's call of batch_insert           (upload_data.py:84)
    resolvers          \* upload sessions' calls of get_or_create_domain_id (upload_data.py:60)

vars == <<session_state, password_input, page, upload_session_state, upload_password_input,
          upload_page, empty_apply, max_rows,
          domain_gsc, df_queries_all, phase_a, phase_b, tier_phase_a, tier_phase_b,
          st_phase_a, st_phase_b, tab_comparison, tab_tiers, tab_strategy, metrics_call,
          position_mean, database, batch, resolvers>>

\* what the uploader does below its gate
supabase_vars == <<database, batch, resolvers>>

\* the uploader's session
upload_vars == <<upload_session_state, upload_password_input, upload_page, supabase_vars>>

\* what a run of the dashboard script only reads
inputs == <<empty_apply, domain_gsc, df_queries_all>>

-----------------------------------------------------------------------------
(* Bounds and constants *)

\* largest number of rows of a fetched fact table
MaxRows == 2

\* largest number of rows of a (query, phase) group whose mean is taken in float64
GroupRows == 3

\* largest number of records of a frame handed to batch_insert
MaxRecords == 5

\* the chunk sizes batch_insert is called with: its parameter, 1000 by default,
\* scaled down to the frames of at most MaxRecords records
ChunkSizes == {1, 2, 3}

\* positions of the rows of such a group, in tenths: 1.0, 1.2, 5.7, 5.9
PositionTenths == {10, 12, 57, 59}

\* the sentinel that stands for "not ranking" in the position delta
MAX_RANK == 100

\* phase identifiers that occur in the tables
PhaseIds == {1, 2}

\* the rows a tier table shows: head(50)
TIER_TABLE_ROWS == 50

\* the values of the max_rows slider: 5 to 30 in steps of 5
SliderValues == {5, 10, 15, 20, 25, 30}

\* the number of queries of a long query table
ListRows == 51

\* the query texts of the long tables, in lexicographic order
ListQueries ==
    <<"q01", "q02", "q03", "q04", "q05", "q06", "q07", "q08", "q09", "q10",
      "q11", "q12", "q13", "q14", "q15", "q16", "q17", "q18", "q19", "q20",
      "q21", "q22", "q23", "q24", "q25", "q26", "q27", "q28", "q29", "q30",
      "q31", "q32", "q33", "q34", "q35", "q36", "q37", "q38", "q39", "q40",
      "q41", "q42", "q43", "q44", "q45", "q46", "q47", "q48", "q49", "q50",
      "q51", "q52", "q53", "q54", "q55", "q56", "q57", "q58", "q59", "q60">>

\* query texts in lexicographic order (groupby and merge sort their keys)
QueryOrder == <<"brand">> \o ListQueries \o <<"shoes">>

\* the query texts of the short tables
QueryTexts == {"brand", "shoes"}

-----------------------------------------------------------------------------
(* float64 cells *)

Abs(i) == IF i < 0 THEN -i ELSE i

Sign(i) == IF i < 0 THEN -1 ELSE IF i > 0 THEN 1 ELSE 0

RECURSIVE GCD(_, _)
GCD(a, b) == IF b = 0 THEN a ELSE GCD(b, a % b)

\* the reduced fraction n/d, d > 0
Norm(n, d) ==
    LET g == GCD(Abs(n), d)
    IN  [n |-> Sign(n) * (Abs(n) \div g), d |-> d \div g]

FInt(i) == [n |-> i, d |-> 1]

NaN == [n |-> 0, d |-> 0]

PosInf == [n |-> 1, d |-> 0]

NegInf == [n |-> -1, d |-> 0]

Zero == FInt(0)

IsNaN(x) == x.d = 0 /\ x.n = 0

IsInf(x) == x.d = 0 /\ x.n # 0

IsFinite(x) == x.d > 0

FNeg(x) == [n |-> -x.n, d |-> x.d]

FAbs(x) == [n |-> Abs(x.n), d |-> x.d]

FAdd(x, y) ==
    IF IsNaN(x) \/ IsNaN(y) THEN NaN
    ELSE IF IsInf(x) THEN (IF IsInf(y) /\ y.n # x.n THEN NaN ELSE x)
    ELSE IF IsInf(y) THEN y
    ELSE Norm(x.n * y.d + y.n * x.d, x.d * y.d)

FSub(x, y) == FAdd(x, FNeg(y))

FMul(x, y) ==
    IF IsNaN(x) \/ IsNaN(y) THEN NaN
    ELSE IF IsInf(x) \/ IsInf(y)
         THEN (IF x.n = 0 \/ y.n = 0 THEN NaN ELSE [n |-> Sign(x.n) * Sign(y.n), d |-> 0])
    ELSE Norm(x.n * y.n, x.d * y.d)

\* float64 division as pandas/numpy perform it: x/0 is +-inf, 0/0 is NaN, no exception
FDiv(x, y) ==
    IF IsNaN(x) \/ IsNaN(y) THEN NaN
    ELSE IF IsInf(y) THEN (IF IsInf(x) THEN NaN ELSE Zero)
    ELSE IF y.n = 0 THEN (IF x.n = 0 THEN NaN ELSE [n |-> Sign(x.n), d |-> 0])
    ELSE IF IsInf(x) THEN [n |-> Sign(x.n) * Sign(y.n), d |-> 0]
    ELSE Norm(Sign(y.n) * x.n * y.d, x.d * Abs(y.n))

\* comparisons: every comparison with NaN is False
FEq(x, y) == ~IsNaN(x) /\ ~IsNaN(y) /\ x = y

FLt(x, y) ==
    /\ ~IsNaN(x)
    /\ ~IsNaN(y)
    /\ x # y
    /\ IF IsInf(x) THEN x.n < 0
       ELSE IF IsInf(y) THEN y.n > 0
       ELSE x.n * y.d < y.n * x.d

FGt(x, y) == FLt(y, x)

FLe(x, y) == FLt(x, y) \/ FEq(x, y)

FGe(x, y) == FLe(y, x)

\* Series.fillna(0) / DataFrame.fillna(0)
FillNa(x) == IF IsNaN(x) THEN Zero ELSE x

\* Series.replace(0, MAX_RANK)
ReplaceZero(x) == IF FEq(x, Zero) THEN FInt(MAX_RANK) ELSE x

RECURSIVE SeriesSum(_)
\* Series.sum(): 0 for an empty series.  The cells are exact, so the sum does not
\* depend on how the series is split; halving keeps the recursion shallow.
SeriesSum(s) ==
    IF Len(s) = 0 THEN Zero
    ELSE IF Len(s) = 1 THEN s[1]
    ELSE FAdd(SeriesSum(SubSeq(s, 1, Len(s) \div 2)),
              SeriesSum(SubSeq(s, Len(s) \div 2 + 1, Len(s))))

\* Series.mean(): NaN for an empty series
SeriesMean(s) == IF Len(s) = 0 THEN NaN ELSE FDiv(SeriesSum(s), FInt(Len(s)))

\* a column of a fact table as a float series
Col(df, name) == [i \in 1..Len(df) |-> FInt(df[i][name])]

\* a float column of a derived frame
Column(df, name) == [i \in 1..Len(df) |-> df[i][name]]

\* df[df['Phase_id'] == phase_id]
FilterPhase(df, phase_id) == SelectSeq(df, LAMBDA r : r.Phase_id = phase_id)

\* the values of column by
KeyValues(df, by) == {df[i][by] : i \in 1..Len(df)}

\* the k-th of the key values V in sort order (no key is NaN here)
KeyAt(V, ascending, k) ==
    CHOOSE v \in V :
        Cardinality({w \in V : IF ascending THEN FLt(w, v) ELSE FGt(w, v)}) = k - 1

\* the rows with key v, in the order of the frame
RowsOfKey(df, by, v) == SelectSeq(df, LAMBDA r : r[by] = v)

RECURSIVE SortFrom(_, _, _, _, _)
\* the rows of the k-th and the later key values: rows with a smaller (ascending) or
\* larger (descending) key come first, rows with the same key keep their order
SortFrom(df, by, V, ascending, k) ==
    IF k > Cardinality(V) THEN << >>
    ELSE RowsOfKey(df, by, KeyAt(V, ascending, k)) \o SortFrom(df, by, V, ascending, k + 1)

\* df.sort_values(by, ascending=ascending).  The row order is a fixed function of the
\* frame; among rows of equal key the frame order is taken, as pandas does for the
\* short frames its default sort handles by insertion.
sort_values(df, by, ascending) == SortFrom(df, by, KeyValues(df, by), ascending, 1)

\* df.head(n)
head(df, n) == SubSeq(df, 1, IF Len(df) < n THEN Len(df) ELSE n)

\* a list that is capped before it is sorted
TopRowsOfHead(df, by, ascending, n) == sort_values(head(df, n), by, ascending)

\* df.sort_values(by, ascending=ascending).head(n)
TopRows(df, by, ascending, n) == head(sort_values(df, by, ascending), n)

-----------------------------------------------------------------------------
(* float64 arithmetic of the Position mean *)

\* The tabs above take every cell as an exact number.  This section refines one
\* step, the mean of the Position cells of a (query, phase) group, to IEEE 754
\* binary64 with round-to-nearest-even.  A finite float64 is a sign and the set of
\* the exponents of the 1 bits of its magnitude: {2, 0, -1} is 5.5.

\* the bits of the significand of a float64
SignificandBits == 53

F64(neg, bits) == [neg |-> neg /\ bits # {}, bits |-> bits]

F64Zero == F64(FALSE, {})

TopBit(S) == CHOOSE e \in S : \A f \in S : f <= e

LowBit(S) == CHOOSE e \in S : \A f \in S : e <= f

\* a carry enters position e of A + B
Carry(A, B, e) ==
    \E j \in A \cap B : j < e /\ \A k \in (j + 1)..(e - 1) : (k \in A) # (k \in B)

\* the exact sum of two magnitudes
AddBits(A, B) ==
    IF A = {} THEN B
    ELSE IF B = {} THEN A
    ELSE {e \in LowBit(A \cup B)..(TopBit(A \cup B) + 1) :
             ((e \in A) # (e \in B)) # Carry(A, B, e)}

\* a borrow enters position e of A - B
Borrow(A, B, e) ==
    \E j \in B \ A : j < e /\ \A k \in (j + 1)..(e - 1) : (k \in A) = (k \in B)

\* the exact difference of two magnitudes, A not smaller than B
SubBits(A, B) ==
    IF B = {} THEN A
    ELSE {e \in LowBit(A \cup B)..TopBit(A \cup B) :
             ((e \in A) # (e \in B)) # Borrow(A, B, e)}

\* magnitude A is larger than magnitude B
GreaterBits(A, B) ==
    /\ A # B
    /\ TopBit((A \ B) \cup (B \ A)) \in A

\* a magnitude rounded to the nearest one of 53 significant bits, ties to even
RoundBits(S) ==
    IF S = {} THEN {}
    ELSE IF /\ (TopBit(S) - SignificandBits) \in S
            /\ \/ (TopBit(S) - SignificandBits + 1) \in S
               \/ \E e \in S : e < TopBit(S) - SignificandBits
         THEN AddBits({e \in S : e > TopBit(S) - SignificandBits},
                      {TopBit(S) - SignificandBits + 1})
         ELSE {e \in S : e > TopBit(S) - SignificandBits}

\* x + y in float64
F64Add(x, y) ==
    IF x.neg = y.neg THEN F64(x.neg, RoundBits(AddBits(x.bits, y.bits)))
    ELSE IF GreaterBits(y.bits, x.bits) THEN F64(y.neg, RoundBits(SubBits(y.bits, x.bits)))
    ELSE F64(x.neg, RoundBits(SubBits(x.bits, y.bits)))

\* x - y in float64
F64Sub(x, y) == F64Add(x, F64(~y.neg, y.bits))

RECURSIVE Pow2Mod(_, _)
\* 2^k modulo d
Pow2Mod(k, d) ==
    IF k = 0 THEN 1 % d
    ELSE IF k % 2 = 1 THEN (2 * Pow2Mod(k - 1, d)) % d
    ELSE (Pow2Mod(k \div 2, d) * Pow2Mod(k \div 2, d)) % d

\* the magnitude S without its bits below position e, as a multiple of 2^e, modulo d
RemAt(S, d, e) ==
    LET part(v) == v * Cardinality({j \in S : j >= e /\ Pow2Mod(j - e, d) = v})
        sum[v \in 0..(d - 1)] == IF v = 0 THEN 0 ELSE part(v) + sum[v - 1]
    IN  sum[d - 1] % d

\* the positions below the top bit of S down to which a quotient is computed
\* before it is rounded
QuotientDepth == 60

\* bit e of the quotient of magnitude S by the integer d
QuotientBit(S, d, e) == (2 * RemAt(S, d, e + 1) + (IF e \in S THEN 1 ELSE 0)) \div d = 1

\* the magnitude S / d of a magnitude S of at most 53 bits and an integer d < 16,
\* rounded: the quotient bits, and one bit further down when the division leaves
\* a remainder
DivBits(S, d) ==
    IF S = {} THEN {}
    ELSE RoundBits({e \in (TopBit(S) - QuotientDepth)..TopBit(S) : QuotientBit(S, d, e)}
                   \cup (IF RemAt(S, d, TopBit(S) - QuotientDepth) # 0
                         THEN {TopBit(S) - QuotientDepth - 1} ELSE {}))

\* x / d in float64, d a row count
F64DivInt(x, d) == F64(x.neg, DivBits(x.bits, d))

\* the magnitude of a natural number
BitsOfNat(n) == {e \in 0..30 : (n \div 2^e) % 2 = 1}

\* the float64 nearest to a position given to one decimal place, in tenths
F64OfTenths(t) == F64(FALSE, DivBits(BitsOfNat(t), 10))

\* the ways builds of pandas sum a group for its mean: plainly, or with Kahan's
\* compensation
MeanMethods == {"plain", "kahan"}

\* the accumulators of a group before its first row
NewGroup(method) ==
    [status |-> "open", method |-> method, rows |-> << >>, sumx |-> F64Zero,
     compensation |-> F64Zero, out |-> F64Zero]

\* Kahan's step: y = val - compensation; t = sumx + y;
\* compensation = t - sumx - y; sumx = t
KahanStep(acc, val, y, t) ==
    [acc EXCEPT !.rows = Append(@, val), !.sumx = t,
                !.compensation = F64Sub(F64Sub(t, acc.sumx), y)]

KahanRow(acc, val, y) == KahanStep(acc, val, y, F64Add(acc.sumx, y))

\* the accumulators after one more row of the group
AddRowTo(acc, val) ==
    IF acc.method = "plain"
    THEN [acc EXCEPT !.rows = Append(@, val), !.sumx = F64Add(@, val)]
    ELSE KahanRow(acc, val, F64Sub(val, acc.compensation))

RECURSIVE Accumulate(_, _, _)
\* the accumulators after the first k rows of a group, taken in their order
Accumulate(method, rows, k) ==
    IF k = 0 THEN NewGroup(method) ELSE AddRowTo(Accumulate(method, rows, k - 1), rows[k])

\* the group with its mean: out = sumx / nobs
MeanOf(acc) ==
    [acc EXCEPT !.status = "done", !.out = F64DivInt(acc.sumx, Len(acc.rows))]

\* groupby(...).agg({'Position': 'mean'}) for one group of float64 positions
GroupMean(method, rows) == MeanOf(Accumulate(method, rows, Len(rows))).out

\* the float64 positions of the rows
PositionValues == {F64OfTenths(t) : t \in PositionTenths}

-----------------------------------------------------------------------------
(* Password gate *)

\* st.secrets["APP_PASSWORD"]
APP_PASSWORD == "letmein"

\* what a user may type into the password box
PasswordTexts == {"", "guess", APP_PASSWORD}

\* the session state of a new session: no key is set
NewSession == [password_correct |-> "unset", password |-> "unset"]

\* st.session_state.get("password_correct", False)
check_password(ss) == ss.password_correct = "True"

\* a callback that accepts whatever was entered
password_entered_any(ss) == [password_correct |-> "True", password |-> "unset"]

\* the on_change callback of the password box; ss.password is the entered text
password_entered(ss) ==
    IF ss.password = APP_PASSWORD
    THEN [password_correct |-> "True", password |-> "unset"]
    ELSE [ss EXCEPT !.password_correct = "False"]

\* st.text_input(..., key="password") registers its key with the empty text
text_input(ss) == [ss EXCEPT !.password = IF @ = "unset" THEN "" ELSE @]

\* the same gate in the uploader script
upload_check_password(ss) == ss.password_correct = "True"

upload_password_entered(ss) ==
    IF ss.password = APP_PASSWORD
    THEN [password_correct |-> "True", password |-> "unset"]
    ELSE [ss EXCEPT !.password_correct = "False"]

upload_text_input(ss) == [ss EXCEPT !.password = IF @ = "unset" THEN "" ELSE @]

-----------------------------------------------------------------------------
(* Phase aggregator *)

calculate_phase_metrics(phase_id, df) ==
    LET df_phase          == FilterPhase(df, phase_id)
        total_clicks      == SeriesSum(Col(df_phase, "Clicks"))
        total_impressions == SeriesSum(Col(df_phase, "Impressions"))
        avg_position      == SeriesMean(Col(df_phase, "Position"))
        avg_ctr           == IF FGt(total_impressions, Zero)
                             THEN FMul(FDiv(total_clicks, total_impressions), FInt(100))
                             ELSE Zero
    IN  [Phase_id    |-> phase_id,
         Clicks      |-> total_clicks,
         Impressions |-> total_impressions,
         Position    |-> avg_position,
         CTR         |-> avg_ctr]

\* sorted(domain_gsc['Phase_id'].unique())
unique_phases(gsc) == {gsc[i].Phase_id : i \in 1..Len(gsc)}

MinPhase(gsc) == CHOOSE p \in unique_phases(gsc) : \A q \in unique_phases(gsc) : p <= q

MaxPhase(gsc) == CHOOSE p \in unique_phases(gsc) : \A q \in unique_phases(gsc) : p >= q

-----------------------------------------------------------------------------
(* Query delta builder *)

\* the keys of a grouped frame, sorted
SortedKeys(K) == SelectSeq(QueryOrder, LAMBDA q : q \in K)

\* df_phase.groupby('Top_Queries').agg(sum, sum, mean).reset_index()
\* the aggregate of the group grp of query q: sum, sum, mean
GroupAggregate(q, grp) ==
    [Top_Queries |-> q,
     Clicks      |-> SeriesSum(Col(grp, "Clicks")),
     Impressions |-> SeriesSum(Col(grp, "Impressions")),
     Position    |-> SeriesMean(Col(grp, "Position"))]

\* one aggregate per key, in the order of the keys
GroupByKeys(df_phase, keys) ==
    [k \in 1..Len(keys) |->
        GroupAggregate(keys[k], SelectSeq(df_phase, LAMBDA r : r.Top_Queries = keys[k]))]

GroupByQuery(df_phase) ==
    GroupByKeys(df_phase, SortedKeys({df_phase[i].Top_Queries : i \in 1..Len(df_phase)}))

aggregate_queries(phase_id, df_q) == GroupByQuery(FilterPhase(df_q, phase_id))

\* the row of an aggregate for key q, or all-NaN when the key is missing
Lookup(agg, q) ==
    IF \E i \in 1..Len(agg) : agg[i].Top_Queries = q
    THEN agg[CHOOSE i \in 1..Len(agg) : agg[i].Top_Queries = q]
    ELSE [Top_Queries |-> q, Clicks |-> NaN, Impressions |-> NaN, Position |-> NaN]

KeysOf(agg) == {agg[i].Top_Queries : i \in 1..Len(agg)}

\* the keys of an inner join: only the queries of both frames
MergeKeysInner(left, right) == KeysOf(left) \cap KeysOf(right)

\* the keys of pd.merge(left, right, on='Top_Queries', how='outer')
MergeKeys(left, right) == KeysOf(left) \cup KeysOf(right)

\* pd.merge(left, right, on='Top_Queries', how='outer').fillna(0)
\* the merged row of a key: the left row's cells, the right row's cells, NaN as 0
MergedRow(l, r) ==
    [Top_Queries   |-> l.Top_Queries,
     Clicks_A      |-> FillNa(l.Clicks),
     Impressions_A |-> FillNa(l.Impressions),
     Position_A    |-> FillNa(l.Position),
     Clicks_B      |-> FillNa(r.Clicks),
     Impressions_B |-> FillNa(r.Impressions),
     Position_B    |-> FillNa(r.Position)]

\* one merged row per key, in the order of the keys
MergeByKeys(left, right, keys) ==
    [k \in 1..Len(keys) |-> MergedRow(Lookup(left, keys[k]), Lookup(right, keys[k]))]

MergeOuterFillNa(left, right) == MergeByKeys(left, right, SortedKeys(MergeKeys(left, right)))

\* (clicks / impressions * 100).fillna(0)
CtrColumn(clicks, impressions) == FillNa(FMul(FDiv(clicks, impressions), FInt(100)))

\* a position delta that forgets the sentinel on the phase A side
PosDeltaRawA(pos_a, pos_b) == FSub(ReplaceZero(pos_b), pos_a)

\* pos_b_calc - pos_a_calc, with 0 replaced by MAX_RANK on both sides
PosDelta(pos_a, pos_b) == FSub(ReplaceZero(pos_b), ReplaceZero(pos_a))

\* the delta columns the Phase Comparison tab adds to a merged row
ComparisonRow(m) ==
    LET ctr_a == CtrColumn(m.Clicks_A, m.Impressions_A)
        ctr_b == CtrColumn(m.Clicks_B, m.Impressions_B)
    IN  [Top_Queries   |-> m.Top_Queries,
         Clicks_A      |-> m.Clicks_A,
         Impressions_A |-> m.Impressions_A,
         Position_A    |-> m.Position_A,
         Clicks_B      |-> m.Clicks_B,
         Impressions_B |-> m.Impressions_B,
         Position_B    |-> m.Position_B,
         Click_Delta   |-> FSub(m.Clicks_B, m.Clicks_A),
         Imp_Delta     |-> FSub(m.Impressions_B, m.Impressions_A),
         CTR_A         |-> ctr_a,
         CTR_B         |-> ctr_b,
         CTR_Delta     |-> FSub(ctr_b, ctr_a),
         Pos_Delta     |-> PosDelta(m.Position_A, m.Position_B)]

ComparisonRows(m) == [i \in 1..Len(m) |-> ComparisonRow(m[i])]

\* df_merged of the Phase Comparison tab for a pair of distinct phases
df_merged_of(pa, pb, df_q) ==
    ComparisonRows(MergeOuterFillNa(aggregate_queries(pa, df_q), aggregate_queries(pb, df_q)))

-----------------------------------------------------------------------------
(* Tab 2: Phase Comparison *)

\* a tab the script did not reach because an earlier tab raised or stopped
NotRun == [status |-> "not run"]

\* df_metrics.loc[phase, metric] is a scalar only when the index is unique; with
\* phase_a = phase_b it is a Series, and `elif value_a != 0` raises ValueError
MetricLoopRaises(pa, pb) == pa = pb

\* the query delta table and the four lists of movers
QueryMovers(metrics_a, metrics_b, df_merged, rows) ==
    [status            |-> "ok",
     metrics_a         |-> metrics_a,
     metrics_b         |-> metrics_b,
     df_merged         |-> df_merged,
     top_gainers_click |-> TopRows(df_merged, "Click_Delta", FALSE, rows),
     top_losers_click  |-> TopRows(df_merged, "Click_Delta", TRUE, rows),
     top_gainers_imp   |-> TopRows(df_merged, "Imp_Delta", FALSE, rows),
     top_losers_imp    |-> TopRows(df_merged, "Imp_Delta", TRUE, rows)]

TabComparison(pa, pb, gsc, df_q, rows) ==
    IF MetricLoopRaises(pa, pb)
    THEN [status |-> "ValueError"]
    ELSE QueryMovers(calculate_phase_metrics(pa, gsc), calculate_phase_metrics(pb, gsc),
                     df_merged_of(pa, pb, df_q), rows)

-----------------------------------------------------------------------------
(* Tab 3: Position Tier Analysis *)

\* the cascade with the 'Jump 10+' rule tried before the 'New Rank' rule
categorize_tier_jump_first(row) ==
    LET pos_a == row.Position_A
        pos_b == row.Position_B
        delta == row.Pos_Delta
    IN  IF FLe(delta, FInt(-10)) THEN "Tier S+ (Jump 10+)"
        ELSE IF FEq(pos_a, Zero) /\ FGt(pos_b, Zero) THEN "Tier S (New Rank)"
        ELSE IF FGt(pos_b, Zero) /\ FLe(pos_b, FInt(3)) /\ FGt(pos_a, FInt(3))
             THEN "Tier S++ (Top 3 Win)"
        ELSE IF FGt(pos_b, Zero) /\ FLe(pos_b, FInt(10)) /\ FLe(delta, FInt(-3))
             THEN "Tier A (Top 10 Solid)"
        ELSE IF FLt(delta, Zero) THEN "Tier B (General Jump)"
        ELSE IF FGe(delta, FInt(10)) THEN "Decliner S (Crash/Lost)"
        ELSE IF FLe(pos_a, FInt(10)) /\ FGe(delta, FInt(3)) THEN "Decliner A (Top 10 Drop)"
        ELSE IF FGt(delta, Zero) THEN "Decliner B (General Drop)"
        ELSE "No Change"

categorize_tier_enhanced(row) ==
    LET pos_a == row.Position_A
        pos_b == row.Position_B
        delta == row.Pos_Delta
    IN  IF FEq(pos_a, Zero) /\ FGt(pos_b, Zero) THEN "Tier S (New Rank)"
        ELSE IF FGt(pos_b, Zero) /\ FLe(pos_b, FInt(3)) /\ FGt(pos_a, FInt(3))
             THEN "Tier S++ (Top 3 Win)"
        ELSE IF FLe(delta, FInt(-10)) THEN "Tier S+ (Jump 10+)"
        ELSE IF FGt(pos_b, Zero) /\ FLe(pos_b, FInt(10)) /\ FLe(delta, FInt(-3))
             THEN "Tier A (Top 10 Solid)"
        ELSE IF FLt(delta, Zero) THEN "Tier B (General Jump)"
        ELSE IF FGe(delta, FInt(10)) THEN "Decliner S (Crash/Lost)"
        ELSE IF FLe(pos_a, FInt(10)) /\ FGe(delta, FInt(3)) THEN "Decliner A (Top 10 Drop)"
        ELSE IF FGt(delta, Zero) THEN "Decliner B (General Drop)"
        ELSE "No Change"

\* a merged row with its Pos_Delta column
WithPosDelta(m) ==
    [Top_Queries   |-> m.Top_Queries,
     Clicks_A      |-> m.Clicks_A,
     Impressions_A |-> m.Impressions_A,
     Position_A    |-> m.Position_A,
     Clicks_B      |-> m.Clicks_B,
     Impressions_B |-> m.Impressions_B,
     Position_B    |-> m.Position_B,
     Pos_Delta     |-> PosDelta(m.Position_A, m.Position_B)]

WithPosDeltas(m) == [i \in 1..Len(m) |-> WithPosDelta(m[i])]

\* tier_merged: the outer join with Pos_Delta
tier_merged_of(ta, tb, df_q) ==
    WithPosDeltas(MergeOuterFillNa(aggregate_queries(ta, df_q), aggregate_queries(tb, df_q)))

\* a filter that keeps only the rows that rank in both phases
TierFilterBoth(tm) ==
    SelectSeq(tm, LAMBDA r : FGt(r.Position_A, Zero) /\ FGt(r.Position_B, Zero))

\* the rows that rank in at least one phase
TierFilter(tm) ==
    SelectSeq(tm, LAMBDA r : FGt(r.Position_A, Zero) \/ FGt(r.Position_B, Zero))

\* a filtered row with Pos_Delta recomputed and the Tier_Class column
WithTierClass(r) ==
    LET d == PosDelta(r.Position_A, r.Position_B)
        w == [r EXCEPT !.Pos_Delta = d]
    IN  [Top_Queries   |-> w.Top_Queries,
         Clicks_A      |-> w.Clicks_A,
         Impressions_A |-> w.Impressions_A,
         Position_A    |-> w.Position_A,
         Clicks_B      |-> w.Clicks_B,
         Impressions_B |-> w.Impressions_B,
         Position_B    |-> w.Position_B,
         Pos_Delta     |-> w.Pos_Delta,
         Tier_Class    |-> categorize_tier_enhanced(w)]

\* tier_analysis_df.apply(categorize_tier_enhanced, axis=1) on a non-empty frame
WithTierClasses(f) == [i \in 1..Len(f) |-> WithTierClass(f[i])]

tier_analysis_df_of(tm) == WithTierClasses(TierFilter(tm))

\* tier_analysis_df['Tier_Class'].value_counts(): only the labels that occur
value_counts(df) ==
    [l \in {df[i].Tier_Class : i \in 1..Len(df)} |->
        Cardinality({i \in 1..Len(df) : df[i].Tier_Class = l})]

\* tier_counts.get(label, 0)
Get(counts, label) == IF label \in DOMAIN counts THEN counts[label] ELSE 0

\* (count / total_keywords * 100) if total_keywords > 0 else 0
Ratio(count, total) ==
    IF total > 0 THEN FMul(FDiv(FInt(count), FInt(total)), FInt(100)) ELSE Zero

\* merging two aggregates of the same phase suffixes the value columns _x/_y, and
\* tier_merged[f'Position_{tier_phase_a}'] raises KeyError
TierColumnsMissing(ta, tb) == ta = tb

\* the totals and the ratios of the summary
TierSummary(tier_merged, tier_analysis_df, tier_counts, count_tier_s_all, count_tier_a, count_tier_b, count_crash, count_major_drop, count_minor_drop, count_no_change, total_keywords) ==
    [status           |-> "ok",
     tier_merged      |-> tier_merged,
     tier_analysis_df |-> tier_analysis_df,
     total_keywords   |-> total_keywords,
     tier_counts      |-> tier_counts,
     count_tier_s_all |-> count_tier_s_all,
     count_tier_a     |-> count_tier_a,
     count_tier_b     |-> count_tier_b,
     total_improvers  |-> count_tier_s_all + count_tier_a + count_tier_b,
     count_crash      |-> count_crash,
     count_major_drop |-> count_major_drop,
     count_minor_drop |-> count_minor_drop,
     total_decliners  |-> count_crash + count_major_drop + count_minor_drop,
     count_no_change  |-> count_no_change,
     win_rate         |-> Ratio(count_tier_s_all + count_tier_a + count_tier_b,
                                total_keywords),
     loss_rate        |-> Ratio(count_crash + count_major_drop + count_minor_drop,
                                total_keywords)]

\* the counts read from tier_counts, label by label
TierCounts(tier_merged, tier_analysis_df, tier_counts) ==
    TierSummary(tier_merged, tier_analysis_df, tier_counts,
                Get(tier_counts, "Tier S (New Rank)")
                    + Get(tier_counts, "Tier S++ (Top 3 Win)")
                    + Get(tier_counts, "Tier S+ (Jump 10+)"),
                Get(tier_counts, "Tier A (Top 10 Solid)"),
                Get(tier_counts, "Tier B (General Jump)"),
                Get(tier_counts, "Decliner S (Crash/Lost)"),
                Get(tier_counts, "Decliner A (Top 10 Drop)"),
                Get(tier_counts, "Decliner B (General Drop)"),
                Get(tier_counts, "No Change"),
                Len(tier_analysis_df))

TierClassified(tier_merged, tier_analysis_df) ==
    TierCounts(tier_merged, tier_analysis_df, value_counts(tier_analysis_df))

\* DataFrame.apply(axis=1) on an empty frame returns, depending on the pandas
\* version, an empty column or a copy of the empty frame
EmptyApplyResults == {"column", "frame"}

\* tier_analysis_df['Tier_Class'] = <a frame of several columns> raises ValueError
TierApplyRaises(tier_merged, apply_result) ==
    Len(TierFilter(tier_merged)) = 0 /\ apply_result = "frame"

\* tier_analysis_df[tier_analysis_df['Tier_Class'].isin(labels)]
TierRows(df, labels) == SelectSeq(df, LAMBDA r : r.Tier_Class \in labels)

\* the table of a tier: its rows sorted by Pos_Delta, head(50)
TierTable(df, labels, ascending) ==
    TopRows(TierRows(df, labels), "Pos_Delta", ascending, TIER_TABLE_ROWS)

s_tiers == {"Tier S (New Rank)", "Tier S++ (Top 3 Win)", "Tier S+ (Jump 10+)"}

\* the summary with the six tier tables
TierTables(summary, df) ==
    summary @@
    [table_s_combined |-> TierTable(df, s_tiers, TRUE),
     table_a          |-> TierTable(df, {"Tier A (Top 10 Solid)"}, TRUE),
     table_b          |-> TierTable(df, {"Tier B (General Jump)"}, TRUE),
     table_d_s        |-> TierTable(df, {"Decliner S (Crash/Lost)"}, FALSE),
     table_d_a        |-> TierTable(df, {"Decliner A (Top 10 Drop)"}, FALSE),
     table_d_b        |-> TierTable(df, {"Decliner B (General Drop)"}, FALSE)]

TierWithTables(tier_merged, tier_analysis_df) ==
    TierTables(TierClassified(tier_merged, tier_analysis_df), tier_analysis_df)

TierFromMerged(tier_merged, apply_result) ==
    IF TierApplyRaises(tier_merged, apply_result)
    THEN [status |-> "ValueError"]
    ELSE TierWithTables(tier_merged, tier_analysis_df_of(tier_merged))

TabTiers(ta, tb, df_q, apply_result) ==
    IF TierColumnsMissing(ta, tb)
    THEN [status |-> "KeyError"]
    ELSE TierFromMerged(tier_merged_of(ta, tb, df_q), apply_result)

-----------------------------------------------------------------------------
(* Tab 4: Strategy Validation *)

\* the columns the Strategy tab adds to a merged row
StrategyRow(m) ==
    LET pos_a_calc == ReplaceZero(m.Position_A)
        pos_b_calc == ReplaceZero(m.Position_B)
        ctr_a      == CtrColumn(m.Clicks_A, m.Impressions_A)
        ctr_b      == CtrColumn(m.Clicks_B, m.Impressions_B)
    IN  [Top_Queries   |-> m.Top_Queries,
         Clicks_A      |-> m.Clicks_A,
         Impressions_A |-> m.Impressions_A,
         Position_A    |-> m.Position_A,
         Clicks_B      |-> m.Clicks_B,
         Impressions_B |-> m.Impressions_B,
         Position_B    |-> m.Position_B,
         Pos_A_Calc    |-> pos_a_calc,
         Pos_B_Calc    |-> pos_b_calc,
         Pos_Delta     |-> FSub(pos_b_calc, pos_a_calc),
         Imp_Delta     |-> FSub(m.Impressions_B, m.Impressions_A),
         CTR_A         |-> ctr_a,
         CTR_B         |-> ctr_b,
         CTR_Delta     |-> FSub(ctr_b, ctr_a)]

StrategyRows(m) == [i \in 1..Len(m) |-> StrategyRow(m[i])]

\* st_merged: its own aggregation and outer join (suffixes _A/_B), then the columns
st_merged_of(sa, sb, df_q) ==
    StrategyRows(MergeOuterFillNa(GroupByQuery(FilterPhase(df_q, sa)),
                                  GroupByQuery(FilterPhase(df_q, sb))))

\* a population that keeps only the rows with impressions in both phases
st_analysis_df_both(sm) ==
    SelectSeq(sm, LAMBDA r : FGt(r.Impressions_A, Zero) /\ FGt(r.Impressions_B, Zero))

\* st_merged[(Impressions_A > 0) | (Impressions_B > 0)]
st_analysis_df_of(sm) ==
    SelectSeq(sm, LAMBDA r : FGt(r.Impressions_A, Zero) \/ FGt(r.Impressions_B, Zero))

IsTrueWin(r) == FLt(r.Pos_Delta, Zero) /\ FGt(r.Imp_Delta, Zero)

\* a Risk test that forgets the direction of the rank change
IsRiskyAnyDirection(r) == FGt(r.CTR_Delta, FInt(3))

IsRisky(r) == FGt(r.CTR_Delta, FInt(3)) /\ FGt(r.Pos_Delta, Zero)

IsIneffective(r) == FGt(r.CTR_Delta, FInt(3)) /\ FEq(r.Pos_Delta, Zero)

\* (count / total_queries) * 100
Pct(count, total_queries) == FMul(FDiv(FInt(count), FInt(total_queries)), FInt(100))

\* a cascade that tries a 'Wasted' rule for every rank that did not drop first
categorize_outcome_wasted_first(row) ==
    IF FGt(row.CTR_Delta, FInt(3)) /\ FLe(row.Pos_Delta, Zero) THEN "Wasted"
    ELSE IF FLt(row.Pos_Delta, Zero) /\ FGt(row.Imp_Delta, Zero) THEN "True Win"
    ELSE IF FGt(row.CTR_Delta, FInt(3)) /\ FGt(row.Pos_Delta, Zero) THEN "Risk (Drop)"
    ELSE "Others"

categorize_outcome(row) ==
    IF FLt(row.Pos_Delta, Zero) /\ FGt(row.Imp_Delta, Zero) THEN "True Win"
    ELSE IF FGt(row.CTR_Delta, FInt(3)) /\ FGt(row.Pos_Delta, Zero) THEN "Risk (Drop)"
    ELSE IF FGt(row.CTR_Delta, FInt(3)) /\ FEq(row.Pos_Delta, Zero) THEN "Wasted"
    ELSE "Others"

\* st_analysis_df.apply(categorize_outcome, axis=1), on a non-empty frame
CategoryColumn(df) == [i \in 1..Len(df) |-> categorize_outcome(df[i])]

\* a depth that forgets the absolute value
SignedDepth(df) ==
    IF Len(df) # 0 THEN SeriesMean(Column(df, "Pos_Delta")) ELSE Zero

\* abs(df['Pos_Delta'].mean()) if not df.empty else 0
AbsMeanDepth(df) ==
    IF Len(df) # 0 THEN FAbs(SeriesMean(Column(df, "Pos_Delta"))) ELSE Zero

\* df['Pos_Delta'].mean() if not df.empty else 0
MeanDepth(df) ==
    IF Len(df) # 0 THEN SeriesMean(Column(df, "Pos_Delta")) ELSE Zero

\* abs(df['Pos_Delta'].sum()) if not df.empty else 0
AbsSumDepth(df) ==
    IF Len(df) # 0 THEN FAbs(SeriesSum(Column(df, "Pos_Delta"))) ELSE Zero

\* df['Pos_Delta'].sum() if not df.empty else 0
SumDepth(df) ==
    IF Len(df) # 0 THEN SeriesSum(Column(df, "Pos_Delta")) ELSE Zero

\* a crash test without the factor 1.5
is_crash_any_excess(avg_loss_depth, avg_win_depth) == FGt(avg_loss_depth, avg_win_depth)

\* avg_loss_depth > (avg_win_depth * 1.5)
is_crash_of(avg_loss_depth, avg_win_depth) ==
    FGt(avg_loss_depth, FMul(avg_win_depth, [n |-> 3, d |-> 2]))

\* the branch of the severity warning: st.error, st.warning or st.success
SeverityOf(is_crash, avg_loss_depth, avg_win_depth) ==
    IF is_crash THEN "error"
    ELSE IF FGt(avg_loss_depth, avg_win_depth) THEN "warning"
    ELSE "success"

\* the magnitude check, the severity warning and the Category column
ScorecardMagnitude(rates, avg_win_depth, avg_loss_depth, total_ranks_gained, total_ranks_lost, is_crash) ==
    rates @@
    [avg_win_depth      |-> avg_win_depth,
     avg_loss_depth     |-> avg_loss_depth,
     total_ranks_gained |-> total_ranks_gained,
     total_ranks_lost   |-> total_ranks_lost,
     net_rank_change    |-> FSub(total_ranks_gained, total_ranks_lost),
     is_crash           |-> is_crash,
     severity           |-> SeverityOf(is_crash, avg_loss_depth, avg_win_depth),
     Category           |-> CategoryColumn(rates.st_analysis_df)]

ScorecardDepths(rates, avg_win_depth, avg_loss_depth) ==
    ScorecardMagnitude(rates, avg_win_depth, avg_loss_depth,
                       AbsSumDepth(rates.true_wins_df), SumDepth(rates.risky_df),
                       is_crash_of(avg_loss_depth, avg_win_depth))

\* the counts and rates of a non-empty population
ScorecardCounts(st_merged, st_analysis_df, total_queries, true_wins_df, risky_df, ineffective_df) ==
    [status            |-> "ok",
     st_merged         |-> st_merged,
     st_analysis_df    |-> st_analysis_df,
     total_queries     |-> total_queries,
     true_wins_df      |-> true_wins_df,
     count_wins        |-> Len(true_wins_df),
     pct_wins          |-> Pct(Len(true_wins_df), total_queries),
     risky_df          |-> risky_df,
     count_risk        |-> Len(risky_df),
     pct_risk          |-> Pct(Len(risky_df), total_queries),
     ineffective_df    |-> ineffective_df,
     count_ineffective |-> Len(ineffective_df),
     pct_ineffective   |-> Pct(Len(ineffective_df), total_queries)]

\* the scorecard of a non-empty population, from its three row sets
ScorecardRates(st_merged, st_analysis_df, total_queries, true_wins_df, risky_df, ineffective_df) ==
    ScorecardDepths(ScorecardCounts(st_merged, st_analysis_df, total_queries,
                                    true_wins_df, risky_df, ineffective_df),
                    AbsMeanDepth(true_wins_df), MeanDepth(risky_df))

\* the scorecard of a population; st.stop() when it is empty
Scorecard(st_merged, st_analysis_df, total_queries) ==
    IF total_queries = 0
    THEN [status         |-> "stopped",
          warning        |-> "No data available for analysis.",
          st_merged      |-> st_merged,
          st_analysis_df |-> st_analysis_df,
          total_queries  |-> total_queries]
    ELSE ScorecardRates(st_merged, st_analysis_df, total_queries,
                        SelectSeq(st_analysis_df, IsTrueWin),
                        SelectSeq(st_analysis_df, IsRisky),
                        SelectSeq(st_analysis_df, IsIneffective))

ScorecardPopulation(st_merged, st_analysis_df) ==
    Scorecard(st_merged, st_analysis_df, Len(st_analysis_df))

ScorecardFromMerged(st_merged) == ScorecardPopulation(st_merged, st_analysis_df_of(st_merged))

TabStrategy(sa, sb, df_q) == ScorecardFromMerged(st_merged_of(sa, sb, df_q))

-----------------------------------------------------------------------------
(* One execution of the script, from the tabs on.  An exception or st.stop()  *)
(* in a tab ends the run: the tabs after it are not computed.                 *)

RunTab2(pa, pb, gsc, df_q, rows) == TabComparison(pa, pb, gsc, df_q, rows)

RunTab3(t2, ta, tb, df_q, apply_result) ==
    IF t2.status = "ok" THEN TabTiers(ta, tb, df_q, apply_result) ELSE NotRun

RunTab4(t3, sa, sb, df_q) == IF t3.status = "ok" THEN TabStrategy(sa, sb, df_q) ELSE NotRun

\* the run from tab 4 on, given what tabs 2 and 3 computed
RunFromTab4(t2, t3, sa, sb) ==
    /\ tab_comparison' = t2
    /\ tab_tiers' = t3
    /\ tab_strategy' = RunTab4(t3, sa, sb, df_queries_all)
    /\ page' = "dashboard"
    /\ UNCHANGED <<inputs, metrics_call, position_mean, upload_vars>>

\* the run from tab 3 on, given what tab 2 computed
RunFromTab3(t2, ta, tb, sa, sb) ==
    RunFromTab4(t2, RunTab3(t2, ta, tb, df_queries_all, empty_apply), sa, sb)

\* the code below the gate, with the widgets' values
RunWithSlider(pa, pb, ta, tb, sa, sb, rows) ==
    RunFromTab3(RunTab2(pa, pb, domain_gsc, df_queries_all, rows), ta, tb, sa, sb)

\* the code below the gate, with the slider as it is
RunBelowGate(pa, pb, ta, tb, sa, sb) == RunWithSlider(pa, pb, ta, tb, sa, sb, max_rows)

\* the script run that follows a widget change, with the widgets' new values:
\* the gate is passed on the session state as it is
Rerun(pa, pb, ta, tb, sa, sb) ==
    /\ check_password(session_state)
    /\ UNCHANGED <<session_state, password_input>>
    /\ RunBelowGate(pa, pb, ta, tb, sa, sb)

\* a script run that stops at the gate: the password box is shown, st.stop()
StopAtGate(ss) ==
    /\ ~check_password(ss)
    /\ session_state' = text_input(ss)
    /\ page' = "gate"
    /\ UNCHANGED <<inputs, metrics_call, position_mean, upload_vars, tab_comparison, tab_tiers,
                   tab_strategy>>

\* a script run that passes the gate on session state ss
PassGate(ss, pa, pb, ta, tb, sa, sb) ==
    /\ check_password(ss)
    /\ session_state' = ss
    /\ RunBelowGate(pa, pb, ta, tb, sa, sb)

-----------------------------------------------------------------------------
(* Uploader: get_or_create_domain_id *)

\* the upload sessions: the one whose gate is followed, and another one that has
\* passed its gate
UploadSessions == {1, 2}

\* domain names in the uploaded files
DomainNames == {"a.com", "b.com"}

\* no call of get_or_create_domain_id yet
NoCalls == [s \in UploadSessions |-> [pc |-> "idle"]]

\* what a call returns: an id, or None
ReturnedId(id) == [value |-> "id", id |-> id]

ReturnedNone == [value |-> "None"]

\* the rows of the Domains table with domain_name = name:
\* select("id").eq("domain_name", name)
DomainRows(Domains, name) == SelectSeq(Domains, LAMBDA row : row.domain_name = name)

\* the call after its select: the id of the first row found is returned, or the
\* call goes on to create the domain
AfterSelect(call, data) ==
    IF Len(data) > 0
    THEN [pc |-> "returned", domain_name |-> call.domain_name, result |-> ReturnedId(data[1].id)]
    ELSE [pc |-> "insert", domain_name |-> call.domain_name]

\* the insert is refused when the table has a unique constraint on domain_name and
\* holds the name
InsertRefused(db, name) == db.unique_domain_name /\ Len(DomainRows(db.Domains, name)) > 0

\* the row the insert creates, with the next id
DomainRow(Domains, name) == [id |-> Len(Domains) + 1, domain_name |-> name]

\* the call after its insert: the new row's id is returned, or None when the
\* insert raised
AfterInsert(call, db) ==
    [pc          |-> "returned",
     domain_name |-> call.domain_name,
     result      |-> IF InsertRefused(db, call.domain_name) THEN ReturnedNone
                     ELSE ReturnedId(DomainRow(db.Domains, call.domain_name).id)]

-----------------------------------------------------------------------------
(* Uploader: batch_insert *)

\* no call of batch_insert yet
NoBatch == [status |-> "idle"]

\* the call before the first pass of its loop; table_before and chunks record what
\* the table held at the call and the chunks submitted since
NewBatch(records, chunk_size, table_before) ==
    [status        |-> "running",
     records       |-> records,
     total_records |-> Len(records),
     chunk_size    |-> chunk_size,
     i             |-> 0,
     progress      |-> Zero,
     result        |-> "none",
     table_before  |-> table_before,
     chunks        |-> << >>]

\* a chunk that takes one record more than chunk_size
chunk_with_next(records, i, chunk_size) ==
    SubSeq(records, i + 1, IF i + chunk_size + 1 < Len(records) THEN i + chunk_size + 1
                           ELSE Len(records))

\* records[i:i + chunk_size], i counted from 0
chunk_of(records, i, chunk_size) ==
    SubSeq(records, i + 1, IF i + chunk_size < Len(records) THEN i + chunk_size
                           ELSE Len(records))

\* min((i + chunk_size) / total_records, 1.0); int / 0 raises ZeroDivisionError
progress_of(i, chunk_size, total_records) ==
    IF total_records = 0 THEN [raised |-> "ZeroDivisionError"]
    ELSE IF i + chunk_size < total_records
         THEN FDiv(FInt(i + chunk_size), FInt(total_records))
         ELSE FInt(1)

\* the call after a chunk was inserted: the progress is shown and the loop goes on
\* with i + chunk_size
AfterChunk(b, chunk) ==
    [b EXCEPT !.chunks = Append(@, chunk),
              !.progress = progress_of(b.i, b.chunk_size, b.total_records),
              !.i = @ + b.chunk_size]

\* the call after an insert raised: st.error, return False
AfterFailure(b, chunk) ==
    [b EXCEPT !.chunks = Append(@, chunk), !.status = "returned", !.result = "False"]

-----------------------------------------------------------------------------
(* Inputs *)

\* all tables of lo..MaxRows rows drawn from Rows
Tables(Rows, lo) == UNION {[1..n -> Rows] : n \in lo..MaxRows}

GscRow(p, c, i, pos) == [Phase_id |-> p, Clicks |-> c, Impressions |-> i, Position |-> pos]

QueryRow(q, p, m) ==
    [Top_Queries |-> q, Phase_id |-> p, Clicks |-> m[1], Impressions |-> m[2], Position |-> m[3]]

QueryRows(Q, M) == {QueryRow(q, p, m) : q \in Q, p \in PhaseIds, m \in M}

\* a domain with one GSC row per phase
TwoPhaseGsc == <<GscRow(1, 100, 1000, 5), GscRow(2, 150, 1000, 5)>>

\* (Clicks, Impressions, Position) of a query row, by scenario
GeneralMetrics == {<<1, 10, 3>>, <<5, 10, 5>>}

TierMetrics == {<<1, 10, 0>>, <<1, 10, 2>>, <<1, 10, 5>>, <<1, 10, 12>>, <<1, 10, 95>>, <<1, 10, 100>>}

CtrMetrics == {<<1, 0, 2>>, <<1, 10, 2>>, <<5, 10, 5>>, <<1, 100, 2>>, <<4, 100, 5>>}

MagMetrics == {<<1, 10, 95>>, <<1, 10, 98>>, <<1, 10, 101>>, <<1, 10, 103>>, <<1, 10, 104>>, <<1, 100, 97>>}

GscMetrics == {<<100, 1000, 5>>, <<150, 1000, 5>>, <<0, 0, 7>>}

GscRows == {GscRow(p, m[1], m[2], m[3]) : p \in PhaseIds, m \in GscMetrics}

\* a fresh session: no session key is set, the tables are in the database, the
\* select boxes will show index 0 and the last index, the slider its default, and
\* the script has not run yet
InitSession(gsc, df_q) ==
    /\ session_state = NewSession
    /\ password_input = "unset"
    /\ page = "none"
    /\ upload_session_state = NewSession
    /\ upload_password_input = "unset"
    /\ upload_page = "none"
    /\ empty_apply \in EmptyApplyResults
    /\ max_rows = 10
    /\ domain_gsc = gsc
    /\ df_queries_all = df_q
    /\ phase_a = MinPhase(gsc)
    /\ phase_b = MaxPhase(gsc)
    /\ tier_phase_a = MinPhase(gsc)
    /\ tier_phase_b = MaxPhase(gsc)
    /\ st_phase_a = MinPhase(gsc)
    /\ st_phase_b = MaxPhase(gsc)
    /\ tab_comparison = NotRun
    /\ tab_tiers = NotRun
    /\ tab_strategy = NotRun
    /\ metrics_call = [status |-> "not called"]

\* the database before the uploads that are followed
NewDatabase == [rows |-> << >>, Domains |-> << >>, unique_domain_name |-> FALSE]

\* no upload is under way
InitUploads(db) == database = db /\ batch = NoBatch /\ resolvers = NoCalls

\* a session in which the float64 mean of a group is not followed
InitWith(gsc, df_q) ==
    /\ InitSession(gsc, df_q)
    /\ position_mean = [status |-> "not followed"]
    /\ InitUploads(NewDatabase)

Init == \E df_q \in Tables(QueryRows(QueryTexts, GeneralMetrics), 0) : InitWith(TwoPhaseGsc, df_q)

InitTier == \E df_q \in Tables(QueryRows(QueryTexts, TierMetrics), 0) : InitWith(TwoPhaseGsc, df_q)

\* the query tables of the Strategy scenario
CtrTables == Tables(QueryRows(QueryTexts, CtrMetrics), 0)

InitCtr == \E df_q \in CtrTables : InitWith(TwoPhaseGsc, df_q)

InitMag == \E df_q \in Tables(QueryRows(QueryTexts, MagMetrics), 0) : InitWith(TwoPhaseGsc, df_q)

InitGate == \E df_q \in Tables(QueryRows({"brand"}, GeneralMetrics), 0) : InitWith(TwoPhaseGsc, df_q)

InitMetrics == \E gsc \in Tables(GscRows, 1) : InitWith(gsc, << >>)

\* long query tables: one row per query and phase, and a second row in the varying
\* phase for the first query.  "new" queries rank in one phase only, "solid" ones
\* move between position 9 and positions 4 to 6, "general" ones between 20 and 17
\* to 19; the varying phase is phase 2 (improvers) or phase 1 (decliners).
ListKinds == {"new", "solid", "general"}

ListFixedPosition(kind) == CASE kind = "new" -> 0 [] kind = "solid" -> 9 [] kind = "general" -> 20

ListVaryingPosition(kind, i) ==
    CASE kind = "new" -> 2 + (i % 3) [] kind = "solid" -> 4 + (i % 3) [] kind = "general" -> 17 + (i % 3)

ListFixedRow(kind, p, i) == QueryRow(ListQueries[i], p, <<2, 20, ListFixedPosition(kind)>>)

ListVaryingRow(kind, p, i) ==
    QueryRow(ListQueries[i], p, <<1 + (i % 3), 10 * (1 + (i % 2)), ListVaryingPosition(kind, i)>>)

ListSecondRow(kind, p) == QueryRow(ListQueries[1], p, <<1, 10, ListVaryingPosition(kind, 1) + 2>>)

\* the table whose varying phase is p and whose fixed phase is 3 - p
ListTable(kind, p, n) ==
    (IF kind = "new" THEN << >> ELSE [i \in 1..n |-> ListFixedRow(kind, 3 - p, i)])
        \o [i \in 1..n |-> ListVaryingRow(kind, p, i)] \o <<ListSecondRow(kind, p)>>

Reverse(df) == [i \in 1..Len(df) |-> df[Len(df) + 1 - i]]

\* the long tables, as stored and in the opposite row order
ListTables ==
    UNION {{ListTable(kind, p, ListRows), Reverse(ListTable(kind, p, ListRows))} :
               kind \in ListKinds, p \in PhaseIds}

InitLists == \E df_q \in ListTables : InitWith(TwoPhaseGsc, df_q)

\* the aggregation of a group is about to start, under either build of pandas
InitFloat ==
    \E method \in MeanMethods :
        /\ InitSession(TwoPhaseGsc, << >>)
        /\ position_mean = NewGroup(method)
        /\ InitUploads(NewDatabase)

\* the Domains table is empty or holds a domain, with or without a unique
\* constraint on domain_name (the schema is not part of the repository)
InitResolve ==
    \E Domains \in {<< >>, <<[id |-> 1, domain_name |-> "a.com"]>>}, unique \in BOOLEAN :
        /\ InitSession(TwoPhaseGsc, << >>)
        /\ position_mean = [status |-> "not followed"]
        /\ InitUploads([NewDatabase EXCEPT !.Domains = Domains, !.unique_domain_name = unique])

\* the target table is empty or holds rows of an earlier upload
InitBatch ==
    \E rows \in {<< >>, <<0>>} :
        /\ InitSession(TwoPhaseGsc, << >>)
        /\ position_mean = [status |-> "not followed"]
        /\ InitUploads([NewDatabase EXCEPT !.rows = rows])

-----------------------------------------------------------------------------
(* The user's actions: each widget change re-executes the script *)

\* the dashboard has run in this session, so its widgets are on the page
Rendered == tab_comparison.status # "not run"

\* the first execution of the script in a session: it stops at the gate
FirstRun ==
    /\ page = "none"
    /\ StopAtGate(session_state)
    /\ UNCHANGED password_input
    /\ UNCHANGED <<phase_a, phase_b, tier_phase_a, tier_phase_b, st_phase_a, st_phase_b,
                   max_rows>>

\* the user changes the text of the password box: the callback runs, then the
\* script, which stops at the gate again or executes the dashboard
EnterPassword ==
    \E pw \in PasswordTexts \ {session_state.password} :
        /\ page = "gate"
        /\ password_input' = pw
        /\ UNCHANGED <<phase_a, phase_b, tier_phase_a, tier_phase_b, st_phase_a, st_phase_b,
                       max_rows>>
        /\ \/ StopAtGate(password_entered([session_state EXCEPT !.password = pw]))
           \/ PassGate(password_entered([session_state EXCEPT !.password = pw]),
                       phase_a, phase_b, tier_phase_a, tier_phase_b, st_phase_a, st_phase_b)

SelectPhaseA ==
    \E p \in unique_phases(domain_gsc) \ {phase_a} :
        /\ Rendered
        /\ phase_a' = p
        /\ UNCHANGED <<phase_b, tier_phase_a, tier_phase_b, st_phase_a, st_phase_b, max_rows>>
        /\ Rerun(p, phase_b, tier_phase_a, tier_phase_b, st_phase_a, st_phase_b)

SelectPhaseB ==
    \E p \in unique_phases(domain_gsc) \ {phase_b} :
        /\ Rendered
        /\ phase_b' = p
        /\ UNCHANGED <<phase_a, tier_phase_a, tier_phase_b, st_phase_a, st_phase_b, max_rows>>
        /\ Rerun(phase_a, p, tier_phase_a, tier_phase_b, st_phase_a, st_phase_b)

SelectTierPhaseA ==
    \E p \in unique_phases(domain_gsc) \ {tier_phase_a} :
        /\ Rendered
        /\ tier_phase_a' = p
        /\ UNCHANGED <<phase_a, phase_b, tier_phase_b, st_phase_a, st_phase_b, max_rows>>
        /\ Rerun(phase_a, phase_b, p, tier_phase_b, st_phase_a, st_phase_b)

SelectTierPhaseB ==
    \E p \in unique_phases(domain_gsc) \ {tier_phase_b} :
        /\ Rendered
        /\ tier_phase_b' = p
        /\ UNCHANGED <<phase_a, phase_b, tier_phase_a, st_phase_a, st_phase_b, max_rows>>
        /\ Rerun(phase_a, phase_b, tier_phase_a, p, st_phase_a, st_phase_b)

SelectStPhaseA ==
    \E p \in unique_phases(domain_gsc) \ {st_phase_a} :
        /\ Rendered
        /\ st_phase_a' = p
        /\ UNCHANGED <<phase_a, phase_b, tier_phase_a, tier_phase_b, st_phase_b, max_rows>>
        /\ Rerun(phase_a, phase_b, tier_phase_a, tier_phase_b, p, st_phase_b)

SelectStPhaseB ==
    \E p \in unique_phases(domain_gsc) \ {st_phase_b} :
        /\ Rendered
        /\ st_phase_b' = p
        /\ UNCHANGED <<phase_a, phase_b, tier_phase_a, tier_phase_b, st_phase_a, max_rows>>
        /\ Rerun(phase_a, phase_b, tier_phase_a, tier_phase_b, st_phase_a, p)

\* the user moves the slider of the Phase Comparison tab
SelectMaxRows ==
    \E v \in SliderValues \ {max_rows} :
        /\ Rendered
        /\ max_rows' = v
        /\ UNCHANGED <<phase_a, phase_b, tier_phase_a, tier_phase_b, st_phase_a, st_phase_b>>
        /\ check_password(session_state)
        /\ UNCHANGED <<session_state, password_input>>
        /\ RunWithSlider(phase_a, phase_b, tier_phase_a, tier_phase_b, st_phase_a,
                         st_phase_b, v)

\* a direct call of the helper with any phase identifier, also one without rows
CallPhaseMetrics ==
    \E pid \in PhaseIds \cup {3} :
        /\ metrics_call' = [status |-> "returned",
                            result |-> calculate_phase_metrics(pid, domain_gsc)]
        /\ UNCHANGED <<session_state, password_input, page, upload_vars, inputs, max_rows, phase_a,
                       phase_b, tier_phase_a, tier_phase_b, st_phase_a, st_phase_b,
                       tab_comparison, tab_tiers, tab_strategy, position_mean>>

\* the dashboard's session, its inputs, its widgets and what its runs computed
run_vars ==
    <<session_state, password_input, page, inputs, max_rows, phase_a, phase_b, tier_phase_a,
      tier_phase_b, st_phase_a, st_phase_b, tab_comparison, tab_tiers, tab_strategy,
      metrics_call>>

dashboard_vars == <<run_vars, position_mean>>

\* the aggregation takes the next row of the group, any of the positions
AddGroupRow ==
    \E val \in PositionValues :
        /\ position_mean.status = "open"
        /\ Len(position_mean.rows) < GroupRows
        /\ position_mean' = AddRowTo(position_mean, val)
        /\ UNCHANGED <<run_vars, upload_vars>>

\* the group has no more rows: its mean is written to the aggregate
FinishGroup ==
    /\ position_mean.status = "open"
    /\ Len(position_mean.rows) > 0
    /\ position_mean' = MeanOf(position_mean)
    /\ UNCHANGED <<run_vars, upload_vars>>

\* the first execution of the uploader script in a session: it stops at the gate
UploadFirstRun ==
    /\ upload_page = "none"
    /\ ~upload_check_password(upload_session_state)
    /\ upload_session_state' = upload_text_input(upload_session_state)
    /\ upload_page' = "gate"
    /\ UNCHANGED <<upload_password_input, supabase_vars, dashboard_vars>>

\* the uploader's script run on session state ss, after the callback
UploadRun(ss) ==
    IF upload_check_password(ss)
    THEN upload_session_state' = ss /\ upload_page' = "uploader"
    ELSE upload_session_state' = upload_text_input(ss) /\ upload_page' = "gate"

\* the user changes the text of the uploader's password box
UploadEnterPassword ==
    \E pw \in PasswordTexts \ {upload_session_state.password} :
        /\ upload_page = "gate"
        /\ upload_password_input' = pw
        /\ UploadRun(upload_password_entered([upload_session_state EXCEPT !.password = pw]))
        /\ UNCHANGED <<supabase_vars, dashboard_vars>>

\* everything but the uploader's calls and the database
gate_vars == <<upload_session_state, upload_password_input, upload_page, dashboard_vars>>

\* batch_insert is called with the records of the final frame and a chunk size:
\* records = df.to_dict(orient='records'), total_records = len(records), and the
\* loop variable before its first value
StartBatchInsert ==
    \E n \in 0..MaxRecords, chunk_size \in ChunkSizes :
        /\ upload_page = "uploader"
        /\ batch.status = "idle"
        /\ batch' = NewBatch([k \in 1..n |-> k], chunk_size, database.rows)
        /\ UNCHANGED <<database, resolvers, gate_vars>>

\* a session resolves a domain name of its file: get_or_create_domain_id is called
CallResolve(s) ==
    \E name \in DomainNames :
        /\ s = 1 => upload_page = "uploader"
        /\ resolvers[s].pc \in {"idle", "returned"}
        /\ resolvers' = [resolvers EXCEPT ![s] = [pc |-> "select", domain_name |-> name]]
        /\ UNCHANGED <<database, batch, gate_vars>>

\* 1. Check if exists: the select is answered from the table as it is now
SelectDomain(s) ==
    /\ resolvers[s].pc = "select"
    /\ resolvers' = [resolvers EXCEPT
                         ![s] = AfterSelect(@, DomainRows(database.Domains, @.domain_name))]
    /\ UNCHANGED <<database, batch, gate_vars>>

\* 2. Create new if not exists: the insert is carried out on the table as it is now
InsertDomain(s) ==
    /\ resolvers[s].pc = "insert"
    /\ resolvers' = [resolvers EXCEPT ![s] = AfterInsert(@, database)]
    /\ database' = IF InsertRefused(database, resolvers[s].domain_name) THEN database
                    ELSE [database EXCEPT
                             !.Domains = Append(@, DomainRow(@, resolvers[s].domain_name))]
    /\ UNCHANGED <<batch, gate_vars>>

\* one pass of the loop: the chunk is inserted and the progress is shown
InsertChunk ==
    /\ batch.status = "running"
    /\ batch.i < batch.total_records
    /\ database' = [database EXCEPT !.rows = @ \o chunk_of(batch.records, batch.i, batch.chunk_size)]
    /\ batch' = AfterChunk(batch, chunk_of(batch.records, batch.i, batch.chunk_size))
    /\ UNCHANGED <<resolvers, gate_vars>>

\* one pass of the loop: the insert raises, nothing of the chunk is stored, and the
\* function returns False
InsertChunkFails ==
    /\ batch.status = "running"
    /\ batch.i < batch.total_records
    /\ batch' = AfterFailure(batch, chunk_of(batch.records, batch.i, batch.chunk_size))
    /\ UNCHANGED <<database, resolvers, gate_vars>>

\* range(0, total_records, chunk_size) is exhausted: the function returns True
FinishBatchInsert ==
    /\ batch.status = "running"
    /\ batch.i >= batch.total_records
    /\ batch' = [batch EXCEPT !.status = "returned", !.result = "True"]
    /\ UNCHANGED <<database, resolvers, gate_vars>>

Next ==
    \/ FirstRun
    \/ EnterPassword
    \/ SelectPhaseA
    \/ SelectPhaseB
    \/ SelectTierPhaseA
    \/ SelectTierPhaseB
    \/ SelectStPhaseA
    \/ SelectStPhaseB

NextTier == FirstRun \/ EnterPassword \/ SelectTierPhaseA \/ SelectTierPhaseB

NextCtr == FirstRun \/ EnterPassword \/ SelectStPhaseA \/ SelectStPhaseB

NextMetrics == FirstRun \/ EnterPassword \/ SelectPhaseA \/ SelectPhaseB \/ CallPhaseMetrics

NextGate ==
    \/ FirstRun
    \/ EnterPassword
    \/ SelectPhaseA
    \/ SelectPhaseB
    \/ UploadFirstRun
    \/ UploadEnterPassword

NextLists == FirstRun \/ EnterPassword \/ SelectMaxRows

NextFloat == AddGroupRow \/ FinishGroup

NextResolve ==
    \/ UploadFirstRun
    \/ UploadEnterPassword
    \/ \E s \in UploadSessions : CallResolve(s)
    \/ \E s \in UploadSessions : SelectDomain(s)
    \/ \E s \in UploadSessions : InsertDomain(s)

NextBatch ==
    \/ UploadFirstRun
    \/ UploadEnterPassword
    \/ StartBatchInsert
    \/ InsertChunk
    \/ InsertChunkFails
    \/ FinishBatchInsert

\* every phase select box, tables with few distinct values
Spec == Init /\ [][Next]_vars

\* the Tier tab's widgets, tables rich in positions
SpecTier == InitTier /\ [][NextTier]_vars

\* the Strategy tab's widgets, tables rich in clicks and impressions
SpecCtr == InitCtr /\ [][NextCtr]_vars

\* the Strategy tab's widgets, tables of shallow and deep rank changes
SpecMag == InitMag /\ [][NextCtr]_vars

\* the slider, tables longer than the lists shown
SpecLists == InitLists /\ [][NextLists]_vars

\* the Position mean of one group, row by row in float64
SpecFloat == InitFloat /\ [][NextFloat]_vars

\* concurrent calls of get_or_create_domain_id
SpecResolve == InitResolve /\ [][NextResolve]_vars

\* the uploader's batch_insert, chunk by chunk
SpecBatch == InitBatch /\ [][NextBatch]_vars

\* the two sessions at their password gates
SpecGate == InitGate /\ [][NextGate]_vars

\* the phase aggregator over GSC tables
SpecMetrics == InitMetrics /\ [][NextMetrics]_vars

-----------------------------------------------------------------------------
(* Properties *)

\* the labels of the taxonomy
TierLabels ==
    {"Tier S (New Rank)", "Tier S++ (Top 3 Win)", "Tier S+ (Jump 10+)",
     "Tier A (Top 10 Solid)", "Tier B (General Jump)", "Decliner S (Crash/Lost)",
     "Decliner A (Top 10 Drop)", "Decliner B (General Drop)", "No Change"}

\* the rows of a frame for query q
RowsFor(df, q) == {i \in 1..Len(df) : df[i].Top_Queries = q}

\* the row ranks in at least one phase
Ranked(r) == r.Position_A.n > 0 \/ r.Position_B.n > 0

\* C1: every joined row that ranks in phase A or phase B carries exactly one of the
\* nine labels, a row that ranks in neither carries none and is not counted, and
\* total_improvers + total_decliners + count_no_change = total_keywords = the number
\* of joined rows that rank somewhere.
C1_OneLabelPerRankedRow ==
    tab_tiers.status = "ok" =>
        LET tm == tab_tiers.tier_merged
            df == tab_tiers.tier_analysis_df
        IN  /\ \A i \in 1..Len(tm) :
                   IF Ranked(tm[i])
                   THEN /\ Cardinality(RowsFor(df, tm[i].Top_Queries)) = 1
                        /\ \A j \in RowsFor(df, tm[i].Top_Queries) :
                               df[j].Tier_Class \in TierLabels
                   ELSE RowsFor(df, tm[i].Top_Queries) = {}
            /\ tab_tiers.total_keywords = Cardinality({i \in 1..Len(tm) : Ranked(tm[i])})
            /\ tab_tiers.total_improvers + tab_tiers.total_decliners
                   + tab_tiers.count_no_change = tab_tiers.total_keywords

\* C1 witness: a run that classified a row and left out a row that ranks nowhere
C1_Witness ==
    /\ tab_tiers.status = "ok"
    /\ tab_tiers.total_keywords >= 1
    /\ \E i \in 1..Len(tab_tiers.tier_merged) : ~Ranked(tab_tiers.tier_merged[i])

\* the position the delta uses: the position when it is > 0, else 100
Adjusted(pos) == IF pos.d > 0 /\ pos.n > 0 THEN pos ELSE FInt(100)

DeltaIsSentinelDifference(df) ==
    \A i \in 1..Len(df) :
        df[i].Pos_Delta = FSub(Adjusted(df[i].Position_B), Adjusted(df[i].Position_A))

DeltasAgree(df1, df2) ==
    \A i \in 1..Len(df1) : \A j \in 1..Len(df2) :
        df1[i].Top_Queries = df2[j].Top_Queries => df1[i].Pos_Delta = df2[j].Pos_Delta

\* the two examples of the rule: 0 -> 5 is -95 and 3 -> 0 is +97
DeltaExamples(df) ==
    \A i \in 1..Len(df) :
        /\ (df[i].Position_A = FInt(0) /\ df[i].Position_B = FInt(5))
               => df[i].Pos_Delta = FInt(-95)
        /\ (df[i].Position_A = FInt(3) /\ df[i].Position_B = FInt(0))
               => df[i].Pos_Delta = FInt(97)

\* C2: in the Phase Comparison tab, the Tier tab (both frames) and the Strategy tab,
\* Pos_Delta of every joined row is posB' - posA' with posX' = posX if posX > 0 else
\* 100, and the tabs agree on it for the same query and the same phase pair.
C2_PosDeltaSentinelRule ==
    /\ tab_comparison.status = "ok" =>
           /\ DeltaIsSentinelDifference(tab_comparison.df_merged)
           /\ DeltaExamples(tab_comparison.df_merged)
    /\ tab_tiers.status = "ok" =>
           /\ DeltaIsSentinelDifference(tab_tiers.tier_merged)
           /\ DeltaIsSentinelDifference(tab_tiers.tier_analysis_df)
           /\ DeltaExamples(tab_tiers.tier_merged)
           /\ DeltasAgree(tab_tiers.tier_merged, tab_tiers.tier_analysis_df)
           /\ (tier_phase_a = phase_a /\ tier_phase_b = phase_b)
                  => DeltasAgree(tab_comparison.df_merged, tab_tiers.tier_merged)
    /\ tab_strategy.status \in {"ok", "stopped"} =>
           /\ DeltaIsSentinelDifference(tab_strategy.st_merged)
           /\ DeltaExamples(tab_strategy.st_merged)
           /\ (st_phase_a = phase_a /\ st_phase_b = phase_b)
                  => DeltasAgree(tab_comparison.df_merged, tab_strategy.st_merged)
           /\ (st_phase_a = tier_phase_a /\ st_phase_b = tier_phase_b)
                  => DeltasAgree(tab_tiers.tier_merged, tab_strategy.st_merged)

\* C2 witness: the three tabs computed the same phase pair, with a gained query
\* (0 -> 5) and a lost query (3 -> 0)
C2_Witness ==
    /\ tab_strategy.status = "ok"
    /\ tier_phase_a = phase_a /\ tier_phase_b = phase_b
    /\ st_phase_a = phase_a /\ st_phase_b = phase_b
    /\ \E i \in 1..Len(tab_strategy.st_merged) :
           /\ tab_strategy.st_merged[i].Position_A = FInt(0)
           /\ tab_strategy.st_merged[i].Position_B = FInt(5)
    /\ \E i \in 1..Len(tab_comparison.df_merged) :
           /\ tab_comparison.df_merged[i].Position_A = FInt(3)
           /\ tab_comparison.df_merged[i].Position_B = FInt(0)

\* the rank improved: gained, or a smaller positive position
Improved(r) ==
    \/ r.Position_A.n = 0 /\ r.Position_B.n > 0
    \/ r.Position_B.n > 0 /\ FLt(r.Position_B, r.Position_A)

\* the rank worsened: lost, or a larger positive position
Worsened(r) ==
    \/ r.Position_A.n > 0 /\ r.Position_B.n = 0
    \/ r.Position_A.n > 0 /\ FLt(r.Position_A, r.Position_B)

DeltaSignMatches(df) ==
    \A i \in 1..Len(df) :
        /\ Improved(df[i]) => FLt(df[i].Pos_Delta, Zero)
        /\ Worsened(df[i]) => FGt(df[i].Pos_Delta, Zero)

\* C3 (as claimed): for all position values, also those at or above 100, Pos_Delta
\* is < 0 whenever the rank improved and > 0 whenever the rank worsened.
C3_DeltaSignFollowsRank ==
    /\ tab_comparison.status = "ok" => DeltaSignMatches(tab_comparison.df_merged)
    /\ tab_tiers.status = "ok" => DeltaSignMatches(tab_tiers.tier_merged)
    /\ tab_strategy.status \in {"ok", "stopped"} => DeltaSignMatches(tab_strategy.st_merged)

\* C4: every classified row with posA = 0 and posB > 0 is labelled
\* 'Tier S (New Rank)', whatever else its Pos_Delta and posB satisfy.
C4_NewRankWins ==
    tab_tiers.status = "ok" =>
        \A i \in 1..Len(tab_tiers.tier_analysis_df) :
            LET r == tab_tiers.tier_analysis_df[i]
            IN  (r.Position_A.n = 0 /\ r.Position_B.n > 0)
                    => r.Tier_Class = "Tier S (New Rank)"

\* C4 witness: a new rank in the top 3 whose delta is also a jump of 10+
C4_Witness ==
    /\ tab_tiers.status = "ok"
    /\ \E i \in 1..Len(tab_tiers.tier_analysis_df) :
           LET r == tab_tiers.tier_analysis_df[i]
           IN  /\ r.Position_A.n = 0
               /\ r.Position_B = FInt(2)
               /\ FLe(r.Pos_Delta, FInt(-10))
               /\ r.Tier_Class = "Tier S (New Rank)"

\* C5 (as claimed): every classified row that ranks in phase A and not in phase B
\* is labelled 'Decliner S (Crash/Lost)', for every posA.
C5_LostRankIsCrash ==
    tab_tiers.status = "ok" =>
        \A i \in 1..Len(tab_tiers.tier_analysis_df) :
            LET r == tab_tiers.tier_analysis_df[i]
            IN  (r.Position_A.n > 0 /\ r.Position_B.n = 0)
                    => r.Tier_Class = "Decliner S (Crash/Lost)"

\* a comparison row with the phases exchanged and the deltas negated
SwappedRow(f, b) ==
    /\ b.Top_Queries = f.Top_Queries
    /\ b.Clicks_A = f.Clicks_B /\ b.Clicks_B = f.Clicks_A
    /\ b.Impressions_A = f.Impressions_B /\ b.Impressions_B = f.Impressions_A
    /\ b.Position_A = f.Position_B /\ b.Position_B = f.Position_A
    /\ b.CTR_A = f.CTR_B /\ b.CTR_B = f.CTR_A
    /\ b.Click_Delta = FNeg(f.Click_Delta)
    /\ b.Imp_Delta = FNeg(f.Imp_Delta)
    /\ b.CTR_Delta = FNeg(f.CTR_Delta)
    /\ b.Pos_Delta = FNeg(f.Pos_Delta)

\* C6: comparing (B, A) gives the queries of comparing (A, B), with the per-side
\* values exchanged and Click_Delta, Imp_Delta, CTR_Delta, Pos_Delta negated.
\* (A NaN cell, which negation leaves NaN, counts as reproduced by a NaN cell.)
C6_SwapNegatesDeltas ==
    tab_comparison.status = "ok" =>
        LET fwd == tab_comparison.df_merged
            bwd == df_merged_of(phase_b, phase_a, df_queries_all)
        IN  /\ Len(bwd) = Len(fwd)
            /\ \A i \in 1..Len(fwd) : SwappedRow(fwd[i], bwd[i])

\* C6 witness: a query of both phases whose four deltas are all non-zero
C6_Witness ==
    /\ tab_comparison.status = "ok"
    /\ \E i \in 1..Len(tab_comparison.df_merged) :
           LET r == tab_comparison.df_merged[i]
           IN  /\ r.Impressions_A.n > 0 /\ r.Impressions_B.n > 0
               /\ r.Click_Delta.n # 0 /\ r.Imp_Delta.n # 0
               /\ r.CTR_Delta.n # 0 /\ r.Pos_Delta.n # 0

\* the rows of the query table for query q in phase p
SourceRows(q, p) ==
    {i \in 1..Len(df_queries_all) :
        df_queries_all[i].Top_Queries = q /\ df_queries_all[i].Phase_id = p}

RECURSIVE IntSum(_, _)
\* the sum of column col of the query table over the rows in I
IntSum(I, col) ==
    IF I = {} THEN 0
    ELSE LET i == CHOOSE x \in I : TRUE
         IN  df_queries_all[i][col] + IntSum(I \ {i}, col)

\* one side of a joined row holds the sums and the unweighted mean of the phase's
\* rows for the query, or zeros when the phase has no row for it
SideAggregates(clicks, impressions, position, q, p) ==
    LET I == SourceRows(q, p)
    IN  IF I = {}
        THEN clicks = FInt(0) /\ impressions = FInt(0) /\ position = FInt(0)
        ELSE /\ clicks = FInt(IntSum(I, "Clicks"))
             /\ impressions = FInt(IntSum(I, "Impressions"))
             /\ position.d > 0
             /\ position.n * Cardinality(I) = IntSum(I, "Position") * position.d

IsFullOuterJoin(m, pa, pb) ==
    \A q \in QueryTexts :
        IF SourceRows(q, pa) \cup SourceRows(q, pb) # {}
        THEN /\ Cardinality(RowsFor(m, q)) = 1
             /\ \A i \in RowsFor(m, q) :
                    /\ SideAggregates(m[i].Clicks_A, m[i].Impressions_A, m[i].Position_A, q, pa)
                    /\ SideAggregates(m[i].Clicks_B, m[i].Impressions_B, m[i].Position_B, q, pb)
        ELSE RowsFor(m, q) = {}

\* C7: each join (df_merged, tier_merged, st_merged) has exactly one row per query
\* text of phase A or phase B, holding per side the sums of clicks and impressions
\* and the unweighted mean position of that phase's rows, and 0, 0, 0 on a side
\* whose phase has no row for the query.
C7_FullOuterJoin ==
    /\ tab_comparison.status = "ok" =>
           IsFullOuterJoin(tab_comparison.df_merged, phase_a, phase_b)
    /\ tab_tiers.status = "ok" =>
           IsFullOuterJoin(tab_tiers.tier_merged, tier_phase_a, tier_phase_b)
    /\ tab_strategy.status \in {"ok", "stopped"} =>
           IsFullOuterJoin(tab_strategy.st_merged, st_phase_a, st_phase_b)

\* C7 witness: a query with two rows in phase A (clicks 1 + 5, positions 3 and 5)
\* and none in phase B
C7_Witness ==
    /\ tab_strategy.status = "ok"
    /\ tab_comparison.status = "ok"
    /\ \E i \in 1..Len(tab_comparison.df_merged) :
           LET r == tab_comparison.df_merged[i]
           IN  /\ r.Clicks_A = FInt(6)
               /\ r.Position_A = FInt(4)
               /\ r.Clicks_B = FInt(0) /\ r.Impressions_B = FInt(0) /\ r.Position_B = FInt(0)

\* the CTR of one side is clicks/impressions*100, or 0 without impressions
CtrIsGuarded(ctr, clicks, impressions) ==
    /\ impressions.n > 0 =>
           ctr.d > 0 /\ ctr.n * impressions.n = 100 * clicks.n * ctr.d
    /\ impressions.n = 0 => ctr = FInt(0)

CtrColumnsGuarded(df) ==
    \A i \in 1..Len(df) :
        /\ CtrIsGuarded(df[i].CTR_A, df[i].Clicks_A, df[i].Impressions_A)
        /\ CtrIsGuarded(df[i].CTR_B, df[i].Clicks_B, df[i].Impressions_B)
        /\ IsFinite(df[i].CTR_A) /\ IsFinite(df[i].CTR_B) /\ IsFinite(df[i].CTR_Delta)

\* C8 (as claimed): on each side of every joined row the CTR is
\* clicks/impressions*100 when impressions > 0 and 0 when impressions = 0, whatever
\* the clicks, and CTR and CTR_Delta are never undefined or infinite.
C8_CtrDivisionGuarded ==
    /\ tab_comparison.status = "ok" => CtrColumnsGuarded(tab_comparison.df_merged)
    /\ tab_strategy.status \in {"ok", "stopped"} => CtrColumnsGuarded(tab_strategy.st_merged)

\* C9 (as claimed): calculate_phase_metrics for a phase without rows returns
\* Clicks = 0, Impressions = 0, Position = 0 and CTR = 0.
C9_EmptyPhaseMetricsAreZero ==
    (/\ metrics_call.status = "returned"
     /\ FilterPhase(domain_gsc, metrics_call.result.Phase_id) = << >>)
        => /\ metrics_call.result.Clicks = FInt(0)
           /\ metrics_call.result.Impressions = FInt(0)
           /\ metrics_call.result.Position = FInt(0)
           /\ metrics_call.result.CTR = FInt(0)

\* the criteria of the scorecard, on the cells of a row
TrueWinCriterion(r) == r.Pos_Delta.n < 0 /\ r.Imp_Delta.n > 0

CtrBoosted(r) ==
    \/ r.CTR_Delta.d = 0 /\ r.CTR_Delta.n = 1
    \/ r.CTR_Delta.d > 0 /\ r.CTR_Delta.n > 3 * r.CTR_Delta.d

RiskCriterion(r) == CtrBoosted(r) /\ r.Pos_Delta.n > 0

WastedCriterion(r) == CtrBoosted(r) /\ r.Pos_Delta.d > 0 /\ r.Pos_Delta.n = 0

HasImpressions(r) == r.Impressions_A.n > 0 \/ r.Impressions_B.n > 0

\* rate = 100 * k / n, and it lies in [0, 100]
RateIs(rate, k, n) ==
    /\ rate.d > 0
    /\ rate.n * n = 100 * k * rate.d
    /\ 0 <= rate.n
    /\ rate.n <= 100 * rate.d

InFrame(df, r) == \E i \in 1..Len(df) : df[i] = r

\* the number of the three scorecard row sets that hold row r
CriteriaMet(t4, r) ==
    (IF InFrame(t4.true_wins_df, r) THEN 1 ELSE 0)
        + (IF InFrame(t4.risky_df, r) THEN 1 ELSE 0)
        + (IF InFrame(t4.ineffective_df, r) THEN 1 ELSE 0)

OutcomeLabels == {"True Win", "Risk (Drop)", "Wasted", "Others"}

\* the category the priority order gives a row
OutcomeByPriority(r) ==
    IF TrueWinCriterion(r) THEN "True Win"
    ELSE IF RiskCriterion(r) THEN "Risk (Drop)"
    ELSE IF WastedCriterion(r) THEN "Wasted"
    ELSE "Others"

RECURSIVE SumOver(_, _)
\* the sum of f over the finite set S
SumOver(S, f) ==
    IF S = {} THEN 0
    ELSE LET x == CHOOSE y \in S : TRUE
         IN  f[x] + SumOver(S \ {x}, f)

\* C12: every row of the scorecard population gets exactly one Category among True
\* Win, Risk (Drop), Wasted, Others, the first in that order whose criterion the row
\* meets, and the four category counts add up to the population size.
C12_OutcomeIsTotal ==
    tab_strategy.status = "ok" =>
        LET pop == tab_strategy.st_analysis_df
            cat == tab_strategy.Category
            cnt == [l \in OutcomeLabels |-> Cardinality({j \in 1..Len(cat) : cat[j] = l})]
        IN  /\ Len(cat) = Len(pop)
            /\ \A j \in 1..Len(pop) :
                   cat[j] \in OutcomeLabels /\ cat[j] = OutcomeByPriority(pop[j])
            /\ SumOver(OutcomeLabels, cnt) = tab_strategy.total_queries

\* C12 witness: a population of two rows in two different categories, one of them
\* a True Win whose CTR rose by more than 3 points
C12_Witness ==
    /\ tab_strategy.status = "ok"
    /\ Len(tab_strategy.Category) = 2
    /\ tab_strategy.Category[1] # tab_strategy.Category[2]
    /\ \E j \in 1..2 :
           /\ tab_strategy.Category[j] = "True Win"
           /\ CtrBoosted(tab_strategy.st_analysis_df[j])

\* the True Win rows and the Risk rows of a population, by the criteria
WinRows(pop) == SelectSeq(pop, TrueWinCriterion)

RiskRows(pop) == SelectSeq(pop, RiskCriterion)

\* |Pos_Delta| of every row
Magnitudes(df) == [i \in 1..Len(df) |-> FAbs(df[i].Pos_Delta)]

\* Pos_Delta of every row
Deltas(df) == [i \in 1..Len(df) |-> df[i].Pos_Delta]

\* the mean of a series, 0 for an empty one
MeanOrZero(series) == IF Len(series) = 0 THEN Zero ELSE SeriesMean(series)

\* C14: avg_win_depth is the mean and total_ranks_gained the sum of |Pos_Delta| over
\* the True Win rows, avg_loss_depth is the mean and total_ranks_lost the sum of
\* Pos_Delta over the Risk rows, each is 0 for an empty row set, and
\* net_rank_change = total_ranks_gained - total_ranks_lost.
C14_MagnitudeStatistics ==
    tab_strategy.status = "ok" =>
        LET wins  == WinRows(tab_strategy.st_analysis_df)
            risks == RiskRows(tab_strategy.st_analysis_df)
        IN  /\ tab_strategy.avg_win_depth = MeanOrZero(Magnitudes(wins))
            /\ tab_strategy.total_ranks_gained = SeriesSum(Magnitudes(wins))
            /\ tab_strategy.avg_loss_depth = MeanOrZero(Deltas(risks))
            /\ tab_strategy.total_ranks_lost = SeriesSum(Deltas(risks))
            /\ tab_strategy.net_rank_change
                   = FSub(SeriesSum(Magnitudes(wins)), SeriesSum(Deltas(risks)))

\* C14 witness: two True Win rows of different depth, whose mean is not an integer
C14_Witness ==
    /\ tab_strategy.status = "ok"
    /\ tab_strategy.count_wins = 2
    /\ tab_strategy.true_wins_df[1].Pos_Delta # tab_strategy.true_wins_df[2].Pos_Delta
    /\ tab_strategy.avg_win_depth.d = 2
    /\ tab_strategy.count_risk = 0

\* 2 * loss > 3 * win, on fractions
ExceedsOneAndAHalf(loss, win) == 2 * loss.n * win.d > 3 * win.n * loss.d

\* C15: is_crash is raised exactly when the average Risk depth is strictly greater
\* than 1.5 times the average True-Win depth (an empty row set has depth 0): never
\* without a Risk row, always with a Risk row and no True Win row.
C15_CrashFlagRule ==
    tab_strategy.status = "ok" =>
        LET wins  == WinRows(tab_strategy.st_analysis_df)
            risks == RiskRows(tab_strategy.st_analysis_df)
        IN  /\ tab_strategy.is_crash
                   = ExceedsOneAndAHalf(MeanOrZero(Deltas(risks)), MeanOrZero(Magnitudes(wins)))
            /\ Len(risks) = 0 => ~tab_strategy.is_crash
            /\ (Len(risks) >= 1 /\ Len(wins) = 0) => tab_strategy.is_crash

\* C15 witness: a True Win of depth 2 and a Risk row of depth 4, which is a crash
C15_Witness ==
    /\ tab_strategy.status = "ok"
    /\ tab_strategy.count_wins = 1
    /\ tab_strategy.count_risk = 1
    /\ tab_strategy.avg_win_depth = FInt(2)
    /\ tab_strategy.avg_loss_depth = FInt(4)
    /\ tab_strategy.is_crash

\* C20 (as claimed): whenever the success branch of the severity warning is taken,
\* the average True-Win depth is strictly greater than the average Risk depth and
\* the net rank P&L is strictly positive.
C20_HealthyVerdictIsTrue ==
    (tab_strategy.status = "ok" /\ tab_strategy.severity = "success") =>
        /\ FGt(tab_strategy.avg_win_depth, tab_strategy.avg_loss_depth)
        /\ FGt(tab_strategy.net_rank_change, Zero)

\* the classifier's population for the selected pair is empty
TierPopulationEmpty ==
    /\ tab_tiers.status \in {"ok", "ValueError"}
    /\ Len(TierFilter(tier_merged_of(tier_phase_a, tier_phase_b, df_queries_all))) = 0

\* the record reports zero for each of its fields in F
ReportsZero(rec, F, zero) == \A f \in F : f \in DOMAIN rec /\ rec[f] = zero

AllDeltasZero(df, F) == \A i \in 1..Len(df) : \A f \in F : df[i][f] = Zero

\* C18 (as claimed): for every choice of phase A and phase B among the domain's
\* phases, also phase A = phase B, the metric comparison, the query delta table and
\* the tier classification complete without raising, and with phase A = phase B
\* every delta of every query is 0.
C18_TotalOverPhasePairs ==
    page = "dashboard" =>
        /\ tab_comparison.status = "ok"
        /\ tab_tiers.status = "ok"
        /\ phase_a = phase_b =>
               AllDeltasZero(tab_comparison.df_merged,
                             {"Click_Delta", "Imp_Delta", "CTR_Delta", "Pos_Delta"})
        /\ tier_phase_a = tier_phase_b =>
               AllDeltasZero(tab_tiers.tier_analysis_df, {"Pos_Delta"})

\* the code below a gate has executed only with password_correct set to True
BelowGateOnlyIfCorrect ==
    /\ (page = "dashboard" \/ tab_comparison.status # "not run")
           => session_state.password_correct = "True"
    /\ upload_page = "uploader" => upload_session_state.password_correct = "True"

\* password_correct becomes True only in a step from the gate in which the text
\* entered equals APP_PASSWORD, and never stops being True
CorrectOnlyByPassword(ss, ss_next, shown, entered_next) ==
    /\ (ss.password_correct # "True" /\ ss_next.password_correct = "True")
           => (shown = "gate" /\ entered_next = APP_PASSWORD)
    /\ ss.password_correct = "True" => ss_next.password_correct = "True"

\* C19: in both scripts, over any sequence of runs and password entries, the code
\* below the gate executes only if password_correct is True in the session state,
\* password_correct becomes True only through the callback on an entered password
\* equal to APP_PASSWORD, and once True it stays True.
C19_PasswordGate ==
    /\ []BelowGateOnlyIfCorrect
    /\ [][/\ CorrectOnlyByPassword(session_state, session_state', page, password_input')
          /\ CorrectOnlyByPassword(upload_session_state, upload_session_state',
                                   upload_page, upload_password_input')]_vars

\* C19 witness: the dashboard session passed its gate and re-ran on two widget
\* changes, while the uploader session, after a wrong password, is still at its gate
C19_Witness ==
    /\ page = "dashboard"
    /\ session_state.password_correct = "True"
    /\ phase_a = 2 /\ phase_b = 1
    /\ tab_comparison.status = "ok"
    /\ upload_page = "gate"
    /\ upload_session_state.password_correct = "False"

\* the six tier tables, their labels and their sort directions
TierTableNames == {"table_s_combined", "table_a", "table_b", "table_d_s", "table_d_a", "table_d_b"}

LabelsOfTable(name) ==
    CASE name = "table_s_combined" -> s_tiers
      [] name = "table_a" -> {"Tier A (Top 10 Solid)"}
      [] name = "table_b" -> {"Tier B (General Jump)"}
      [] name = "table_d_s" -> {"Decliner S (Crash/Lost)"}
      [] name = "table_d_a" -> {"Decliner A (Top 10 Drop)"}
      [] name = "table_d_b" -> {"Decliner B (General Drop)"}

Improvers == {"table_s_combined", "table_a", "table_b"}

\* x is a more extreme rank change than y: a larger gain in an improver table, a
\* larger loss in a decliner table
MoreExtreme(improver, x, y) == IF improver THEN FLt(x, y) ELSE FGt(x, y)

\* the queries of the rows of a table
QueriesOf(tbl) == {tbl[k].Top_Queries : k \in 1..Len(tbl)}

\* tbl shows rows of df with a label in labels, each once, at most cap of them and
\* all of them when they are not more than cap, from the most extreme Pos_Delta on,
\* and no row of the tier that is left out is more extreme than a row shown
ShowsMostExtreme(tbl, df, labels, improver, cap) ==
    /\ Len(tbl) <= cap
    /\ \A k \in 1..Len(tbl) :
           /\ tbl[k].Tier_Class \in labels
           /\ \E i \in 1..Len(df) : df[i] = tbl[k]
           /\ \A l \in 1..Len(tbl) : tbl[l].Top_Queries = tbl[k].Top_Queries => l = k
    /\ \A k \in 1..(Len(tbl) - 1) :
           ~MoreExtreme(improver, tbl[k + 1].Pos_Delta, tbl[k].Pos_Delta)
    /\ \A i \in 1..Len(df) :
           (df[i].Tier_Class \in labels /\ df[i].Top_Queries \notin QueriesOf(tbl))
               => /\ Len(tbl) = cap
                  /\ \A k \in 1..Len(tbl) :
                         ~MoreExtreme(improver, df[i].Pos_Delta, tbl[k].Pos_Delta)

\* C16: each of the six tier tables shows at most 50 rows of its tier, sorted by
\* Pos_Delta -- ascending (largest gain first) for the improver tables, descending
\* (largest loss first) for the decliner tables -- and when the tier has more than
\* 50 rows the table shows the most extreme ones: no row left out has a more
\* extreme Pos_Delta than a row shown.
C16_TierTablesShowMostExtreme ==
    tab_tiers.status = "ok" =>
        \A name \in TierTableNames :
            ShowsMostExtreme(tab_tiers[name], tab_tiers.tier_analysis_df,
                             LabelsOfTable(name), name \in Improvers, TIER_TABLE_ROWS)

\* the tier of the table has more rows than the table, and the last row shown
\* ties with a row left out while the first row shown is more extreme
CappedWithTie(tbl, df, labels, improver) ==
    /\ Len(tbl) = TIER_TABLE_ROWS
    /\ MoreExtreme(improver, tbl[1].Pos_Delta, tbl[Len(tbl)].Pos_Delta)
    /\ \E i \in 1..Len(df) :
           /\ df[i].Tier_Class \in labels
           /\ df[i].Top_Queries \notin QueriesOf(tbl)
           /\ df[i].Pos_Delta = tbl[Len(tbl)].Pos_Delta

\* C16 witness: the Decliner A tier has more than 50 rows; its table is capped, with
\* a tie at the cut-off
C16_Witness ==
    /\ tab_tiers.status = "ok"
    /\ CappedWithTie(tab_tiers.table_d_a, tab_tiers.tier_analysis_df,
                     LabelsOfTable("table_d_a"), FALSE)

\* the rows of df from the second on, then the first
Rotate(df) == IF Len(df) = 0 THEN df ELSE Tail(df) \o <<Head(df)>>

\* tables that hold the rows of df in another order
Reorderings(df) == {Reverse(df), Rotate(df)}

\* the three tabs compute from df_q what the last run computed
SameOutputs(df_q) ==
    /\ RunTab2(phase_a, phase_b, domain_gsc, df_q, max_rows) = tab_comparison
    /\ RunTab3(tab_comparison, tier_phase_a, tier_phase_b, df_q, empty_apply) = tab_tiers
    /\ RunTab4(tab_tiers, st_phase_a, st_phase_b, df_q) = tab_strategy

\* With exact cells, for the same phase pairs and slider value, a query table that
\* holds the same rows in a different order gives the same outputs in every tab:
\* the same metrics, joined rows, labels, counts and rates, and the same rows in
\* the same order in every sorted, capped list (the four top-N lists of movers and
\* the six tier tables), also when rows tie on the sort key across the cut-off.
\* The grouping and the join put the rows in key order before any list is sorted.
ExactOutputsIndependentOfRowOrder ==
    page = "dashboard" => \A df_q \in Reorderings(df_queries_all) : SameOutputs(df_q)

\* the list is capped, and its last row ties on column by with a row left out
TieAtCutOff(list, df, by, cap) ==
    /\ Len(list) = cap
    /\ \E i \in 1..Len(df) :
           /\ df[i].Top_Queries \notin QueriesOf(list)
           /\ df[i][by] = list[Len(list)][by]

\* the query table is stored in the opposite of its key order, a query has two
\* rows in one phase, and the click gainers, the impression losers and the Tier S
\* table are each cut within a group of rows that tie on the sort key
ListsCutWithinTies ==
    /\ page = "dashboard"
    /\ tab_comparison.status = "ok"
    /\ tab_tiers.status = "ok"
    /\ \E kind \in ListKinds, p \in PhaseIds :
           df_queries_all = Reverse(ListTable(kind, p, ListRows))
    /\ TieAtCutOff(tab_comparison.top_gainers_click, tab_comparison.df_merged,
                   "Click_Delta", max_rows)
    /\ TieAtCutOff(tab_comparison.top_losers_imp, tab_comparison.df_merged,
                   "Imp_Delta", max_rows)
    /\ TieAtCutOff(tab_tiers.table_s_combined, tab_tiers.tier_analysis_df,
                   "Pos_Delta", TIER_TABLE_ROWS)

\* C17: output is independent of input row order.  In float64 the outputs start
\* from the Position of the aggregate rows: the mean of the positions of a (query,
\* phase) group is the same float64 for the same rows in another order.
C17_MeanIndependentOfRowOrder ==
    position_mean.status = "done" =>
        \A rows \in Reorderings(position_mean.rows) :
            GroupMean(position_mean.method, rows) = position_mean.out

ImproverLabels == s_tiers \cup {"Tier A (Top 10 Solid)", "Tier B (General Jump)"}

DeclinerLabels ==
    {"Decliner S (Crash/Lost)", "Decliner A (Top 10 Drop)", "Decliner B (General Drop)"}

\* the tier group of the row is the one its Pos_Delta has the sign of
GroupMatchesSign(r) ==
    /\ r.Tier_Class = "No Change" <=> r.Pos_Delta = Zero
    /\ r.Tier_Class \in ImproverLabels <=> FLt(r.Pos_Delta, Zero)
    /\ r.Tier_Class \in DeclinerLabels <=> FGt(r.Pos_Delta, Zero)

\* C21 (as claimed): for all position values, also those at or above 100, a
\* classified row is labelled 'No Change' if and only if its Pos_Delta is 0, is in
\* an improver tier if and only if Pos_Delta < 0 and in a decliner tier if and only
\* if Pos_Delta > 0, and the 'No Change' count is the number of classified rows
\* with Pos_Delta = 0.
C21_TierGroupMatchesDeltaSign ==
    tab_tiers.status = "ok" =>
        /\ \A i \in 1..Len(tab_tiers.tier_analysis_df) :
               GroupMatchesSign(tab_tiers.tier_analysis_df[i])
        /\ tab_tiers.count_no_change
               = Cardinality({i \in 1..Len(tab_tiers.tier_analysis_df) :
                                 tab_tiers.tier_analysis_df[i].Pos_Delta = Zero})

RECURSIVE Flatten(_)
\* the records of a sequence of chunks, in order
Flatten(chunks) == IF chunks = << >> THEN << >> ELSE Head(chunks) \o Flatten(Tail(chunks))

\* the chunks that were inserted: all that were submitted, but the last one when
\* the call returned False
InsertedChunks(b) ==
    IF b.result = "False" THEN SubSeq(b.chunks, 1, Len(b.chunks) - 1) ELSE b.chunks

\* the chunks submitted so far are consecutive slices of the records, in order, of
\* 1 to chunk_size records each, and the table holds what it held at the call
\* followed by the records of the inserted chunks
ChunksArePrefix(b, rows) ==
    /\ \A k \in 1..Len(b.chunks) : Len(b.chunks[k]) \in 1..b.chunk_size
    /\ Len(Flatten(b.chunks)) <= b.total_records
    /\ Flatten(b.chunks) = SubSeq(b.records, 1, Len(Flatten(b.chunks)))
    /\ rows = b.table_before \o Flatten(InsertedChunks(b))
    /\ b.progress # [raised |-> "ZeroDivisionError"]

\* True is returned exactly when every record went into an inserted chunk; False
\* right after the first chunk that failed
ResultIsRight(b) ==
    b.status = "returned" =>
        /\ b.result \in {"True", "False"}
        /\ b.result = "True" <=> Flatten(InsertedChunks(b)) = b.records
        /\ b.total_records = 0 => (b.result = "True" /\ b.chunks = << >>)

BatchIsRight ==
    batch.status # "idle" => (ChunksArePrefix(batch, database.rows) /\ ResultIsRight(batch))

\* C22: batch_insert submits the records in order in consecutive chunks of at most
\* chunk_size, each record in exactly one chunk, and returns True if and only if
\* every chunk was inserted (True for an empty frame, with no insert and no
\* division by zero); when a chunk fails it returns False at once, no later chunk
\* is attempted, and the table holds exactly what it held before followed by the
\* records of the chunks before the failed one.
C22_BatchInsertChunks ==
    /\ []BatchIsRight
    /\ [][batch.status = "returned" => (batch' = batch /\ database' = database)]_vars

\* C22 witness: a frame of five records in chunks of two, uploaded to a table that
\* holds a row: the first two chunks were inserted, the third failed, False was
\* returned and the table holds the old row and four records
C22_Witness ==
    /\ batch.status = "returned"
    /\ batch.result = "False"
    /\ batch.total_records = 5
    /\ batch.chunk_size = 2
    /\ batch.chunks = <<(<<1, 2>>), (<<3, 4>>), (<<5>>)>>
    /\ database.rows = <<0, 1, 2, 3, 4>>

\* the ids of the Domains rows with the name
IdsOfName(name) ==
    {database.Domains[k].id : k \in {j \in 1..Len(database.Domains) :
                                         database.Domains[j].domain_name = name}}

\* C23 (as claimed): after any interleaving of calls of get_or_create_domain_id from
\* concurrent upload sessions, the Domains table holds at most one row per domain
\* name, and every call that has returned for a name returned the id of the one
\* row with that name.
C23_OneRowPerDomainName ==
    /\ \A name \in DomainNames : Cardinality(IdsOfName(name)) <= 1
    /\ \A s \in UploadSessions :
           resolvers[s].pc = "returned"
               => /\ resolvers[s].result.value = "id"
                  /\ IdsOfName(resolvers[s].domain_name) = {resolvers[s].result.id}

====
